---- MODULE Spec2Model ----
(***************************************************************************)
(* Shop tracker: the relational store (database.py) and the request        *)
(* handlers that write to it (app.py).                                     *)
(*                                                                         *)
(* Tables are sets of rows; every row carries its AUTOINCREMENT id.        *)
(* Prices and amounts are REAL columns holding whole shillings here, so    *)
(* they are integers; dates are day numbers 1..MaxDay (the calendar date   *)
(* DATE(...) extracts from a stored timestamp).                            *)
(*                                                                         *)
(* Request handlers run on worker threads (app.run(threaded=True)); each   *)
(* thread has its own connection (threading.local).  A connection sees     *)
(* only committed rows of the others; SQLite allows one writer at a time.  *)
(***************************************************************************)
EXTENDS Integers, FiniteSets, Sequences, TLC

VARIABLES
    products,            \* table products (committed rows)
    sales,               \* table sales (committed rows)
    expense_categories,  \* table expense_categories
    expenses,            \* table expenses
    sqlite_sequence,     \* AUTOINCREMENT counters, one per table
    uploads,             \* files in static/uploads
    today,               \* calendar date of datetime.now()
    writer,              \* thread whose connection holds the write lock, 0 if none
    pc,                  \* per thread: position inside sell_product / record_sale
    form,                \* per thread: request.form of the sell request
    product,             \* per thread: local variable product of sell_product
    sale,                \* per thread: local variables total_price, profit
    tx,                  \* per thread: uncommitted writes of its connection
    flash,               \* per thread: the message flashed by its last request
    users,               \* table users (committed rows)
    call,                \* per thread: the user-management call it is running
    page                 \* the report page rendered last

vars == <<products, sales, expense_categories, expenses, sqlite_sequence,
          uploads, today, writer, pc, form, product, sale, tx, flash,
          users, call, page>>

storeVars  == <<products, sales, expense_categories, expenses, sqlite_sequence, uploads>>
threadVars == <<pc, form, product, sale, tx, flash>>
adminVars  == <<users, call, page>>

(***************************************************************************)
(* Bounds of the model.                                                    *)
(***************************************************************************)
MaxProducts == 1     \* products ever created
MaxSales    == 2     \* sell requests ever admitted
MaxExpenses == 2     \* expenses ever created
MaxDay      == 2     \* calendar days the clock runs through
MaxUsers    == 1     \* users ever added to the two default ones

Threads == {1, 2}    \* request worker threads

(***************************************************************************)
(* Values.                                                                 *)
(***************************************************************************)
None == [id |-> 0]                         \* Python None / SQL NULL for a row
NoDate == 0                                \* start_date / end_date absent (None or '')
NoTx == [sales |-> {}, updates |-> {}]     \* connection outside a transaction

RECURSIVE SUM(_, _)
SUM(rows, col) ==
    IF rows = {} THEN 0
    ELSE LET r == CHOOSE x \in rows : TRUE
         IN  r[col] + SUM(rows \ {r}, col)

Row(table, id) == IF \E r \in table : r.id = id
                  THEN CHOOSE r \in table : r.id = id
                  ELSE None

\* the nine default categories init_db inserts, in insertion order
default_categories == <<
    [name |-> "Cost of Goods Sold",       category_type |-> "cogs"],
    [name |-> "Rent",                     category_type |-> "operating"],
    [name |-> "Salaries",                 category_type |-> "operating"],
    [name |-> "Utilities",                category_type |-> "operating"],
    [name |-> "Marketing",                category_type |-> "operating"],
    [name |-> "Office Supplies",          category_type |-> "operating"],
    [name |-> "Insurance",                category_type |-> "operating"],
    [name |-> "Maintenance",              category_type |-> "operating"],
    [name |-> "Other Operating Expenses", category_type |-> "operating"] >>

\* the two users init_db inserts when they are missing
default_users == <<
    [username |-> "admin",    password |-> "admin123",    role |-> "admin"],
    [username |-> "employee", password |-> "employee123", role |-> "employee"] >>

\* a thread that runs no user-management call; result is what its last call
\* returned ("True") or the message of the exception it raised
NoCall == [op |-> "", pc |-> "idle", user_id |-> 0, username |-> "",
           password |-> "", role |-> "", result |-> ""]

NoPage == [view |-> ""]

(***************************************************************************)
(* Database.__init__ / init_db on a fresh file: empty tables, the default  *)
(* categories; no request is running.                                      *)
(***************************************************************************)
InitStore ==
    /\ products = {}
    /\ sales = {}
    /\ expense_categories =
          { [id |-> i, name |-> default_categories[i].name,
             category_type |-> default_categories[i].category_type]
            : i \in 1..Len(default_categories) }
    /\ expenses = {}
    /\ sqlite_sequence = [products |-> 0, sales |-> 0, expenses |-> 0,
                          expense_categories |-> Len(default_categories),
                          users |-> Len(default_users)]
    /\ uploads = {}

InitThreads ==
    /\ today = 1
    /\ writer = 0
    /\ pc = [t \in Threads |-> "idle"]
    /\ form = [t \in Threads |-> [product_id |-> 0, quantity |-> 0]]
    /\ product = [t \in Threads |-> None]
    /\ sale = [t \in Threads |-> [total_price |-> 0, profit |-> 0]]
    /\ tx = [t \in Threads |-> NoTx]
    /\ flash = [t \in Threads |-> ""]

\* init_db: the two default users; no user call is running, no page rendered
InitUsers ==
    /\ users = { [id |-> i, username |-> default_users[i].username,
                  password |-> default_users[i].password,
                  role |-> default_users[i].role] : i \in 1..Len(default_users) }
    /\ call = [t \in Threads |-> NoCall]
    /\ page = NoPage

Init == InitStore /\ InitThreads /\ InitUsers

(***************************************************************************)
(* Database.get_product_by_id: a SELECT on the caller's connection, which  *)
(* sees the committed rows.                                                *)
(***************************************************************************)
get_product_by_id(product_id) == Row(products, product_id)

(***************************************************************************)
(* sell_product, "Calculate sale".                                         *)
(***************************************************************************)
TotalPrice(p, quantity) == p.selling_price * quantity

\* the margin of one unit, not multiplied by the quantity
SaleProfit_PerUnit(p, quantity) == p.selling_price - p.buying_price

SaleProfit(p, quantity) == (p.selling_price - p.buying_price) * quantity

\* the handler returns: it flashes a message and its locals are gone
NoSale == [total_price |-> 0, profit |-> 0]

Respond(t, message) ==
    /\ flash' = [flash EXCEPT ![t] = message]
    /\ pc' = [pc EXCEPT ![t] = "idle"]
    /\ product' = [product EXCEPT ![t] = None]
    /\ sale' = [sale EXCEPT ![t] = NoSale]

\* requests in flight
Running == {t \in Threads : pc[t] # "idle"}

(***************************************************************************)
(* sell_product: the request arrives and its form is validated.            *)
(* product_id 0 stands for a form without a product selected.              *)
(***************************************************************************)
Sell_Request(t, product_id, quantity) ==
    /\ pc[t] = "idle"
    /\ sqlite_sequence.sales + Cardinality(Running) < MaxSales
    /\ form' = [form EXCEPT ![t] = [product_id |-> product_id, quantity |-> quantity]]
    /\ IF product_id = 0
       THEN Respond(t, "Please select a product")
       ELSE IF quantity <= 0
       THEN Respond(t, "Quantity must be greater than 0")
       ELSE /\ pc' = [pc EXCEPT ![t] = "get_product"]
            /\ flash' = [flash EXCEPT ![t] = ""]
            /\ UNCHANGED <<product, sale>>
    /\ UNCHANGED <<storeVars, today, writer, tx>>
    /\ UNCHANGED adminVars

(***************************************************************************)
(* sell_product, "Get product": product = db.get_product_by_id(product_id) *)
(***************************************************************************)
Sell_GetProduct(t) ==
    /\ pc[t] = "get_product"
    /\ LET p == get_product_by_id(form[t].product_id)
       IN  IF p = None
           THEN Respond(t, "Product not found")
           ELSE /\ product' = [product EXCEPT ![t] = p]
                /\ pc' = [pc EXCEPT ![t] = "check_stock"]
                /\ UNCHANGED <<flash, sale>>
    /\ UNCHANGED <<storeVars, today, writer, form, tx>>
    /\ UNCHANGED adminVars

\* the sale worked out without a look at the stock
Sell_CheckStock_Off(t) ==
    /\ pc[t] = "check_stock"
    /\ sale' = [sale EXCEPT ![t] =
                  [total_price |-> TotalPrice(product[t], form[t].quantity),
                   profit      |-> SaleProfit(product[t], form[t].quantity)]]
    /\ pc' = [pc EXCEPT ![t] = "record_sale"]
    /\ UNCHANGED <<flash, product>>
    /\ UNCHANGED <<storeVars, today, writer, form, tx>>
    /\ UNCHANGED adminVars

(***************************************************************************)
(* sell_product, "Check stock" and "Calculate sale", on the row read.      *)
(***************************************************************************)
Sell_CheckStock(t) ==
    /\ pc[t] = "check_stock"
    /\ IF product[t].quantity < form[t].quantity
       THEN Respond(t, "Insufficient stock!")
       ELSE /\ sale' = [sale EXCEPT ![t] =
                          [total_price |-> TotalPrice(product[t], form[t].quantity),
                           profit      |-> SaleProfit(product[t], form[t].quantity)]]
            /\ pc' = [pc EXCEPT ![t] = "record_sale"]
            /\ UNCHANGED <<flash, product>>
    /\ UNCHANGED <<storeVars, today, writer, form, tx>>
    /\ UNCHANGED adminVars

(***************************************************************************)
(* Database.record_sale.                                                   *)
(*   BEGIN TRANSACTION; INSERT INTO sales ...; UPDATE products ...; commit *)
(* The INSERT takes the write lock, which the connection keeps until it    *)
(* commits or rolls back.  PRAGMA foreign_keys = ON (get_connection) makes *)
(* the INSERT fail when product_id names no product.                       *)
(***************************************************************************)
ForeignKeyOk(product_id) == \E p \in products : p.id = product_id

NewSale(t) ==
    [id            |-> sqlite_sequence.sales + 1,
     product_id    |-> form[t].product_id,
     quantity_sold |-> form[t].quantity,
     total_price   |-> sale[t].total_price,
     profit        |-> sale[t].profit,
     sale_date     |-> today]

\* except sqlite3.Error: conn.rollback(); raise  -- caught by the handler's
\* except Exception, which flashes the error
Rollback(t) ==
    /\ tx' = [tx EXCEPT ![t] = NoTx]
    /\ writer' = IF writer = t THEN 0 ELSE writer
    /\ Respond(t, "Error")

RecordSale_Insert(t) ==
    /\ pc[t] = "record_sale"
    /\ writer = 0
    /\ IF ForeignKeyOk(form[t].product_id)
       THEN /\ tx' = [tx EXCEPT ![t].sales = {NewSale(t)}]
            /\ writer' = t
            /\ pc' = [pc EXCEPT ![t] = "update"]
            /\ UNCHANGED <<flash, product, sale>>
       ELSE Rollback(t)
    /\ UNCHANGED <<storeVars, today, form>>
    /\ UNCHANGED adminVars

\* the stock goes down by one for a sale, whatever the units sold
DecrementedRows_ByOne(product_id, quantity_sold) ==
    { [p EXCEPT !.quantity = @ - 1] : p \in {r \in products : r.id = product_id} }

\* UPDATE products SET quantity = quantity - ? WHERE id = ?
DecrementedRows(product_id, quantity_sold) ==
    { [p EXCEPT !.quantity = @ - quantity_sold] : p \in {r \in products : r.id = product_id} }

RecordSale_Update(t) ==
    /\ pc[t] = "update"
    /\ tx' = [tx EXCEPT ![t].updates = DecrementedRows(form[t].product_id, form[t].quantity)]
    /\ pc' = [pc EXCEPT ![t] = "commit"]
    /\ UNCHANGED <<storeVars, today, writer, form, product, sale, flash>>
    /\ UNCHANGED adminVars

\* conn.commit(): the transaction's writes become the committed rows
CommittedSales(txn) == sales \cup txn.sales

\* the UPDATE is lost: only the INSERT reaches the committed rows
CommittedProducts_Lost(txn) == products

CommittedProducts(txn) ==
    {p \in products : \A u \in txn.updates : u.id # p.id} \cup txn.updates

RecordSale_Commit(t) ==
    /\ pc[t] = "commit"
    /\ sales' = CommittedSales(tx[t])
    /\ products' = CommittedProducts(tx[t])
    /\ sqlite_sequence' = [sqlite_sequence EXCEPT !.sales = @ + Cardinality(tx[t].sales)]
    /\ tx' = [tx EXCEPT ![t] = NoTx]
    /\ writer' = 0
    /\ Respond(t, "Sale recorded successfully!")
    /\ UNCHANGED <<expense_categories, expenses, uploads, today, form>>
    /\ UNCHANGED adminVars

(***************************************************************************)
(* A statement of record_sale raises sqlite3.Error: "database is locked"   *)
(* when another connection holds the write lock past busy_timeout, or an   *)
(* I/O failure at any statement.  The except clause rolls back.            *)
(***************************************************************************)
RecordSale_Error(t) ==
    /\ pc[t] \in {"record_sale", "update", "commit"}
    /\ pc[t] = "record_sale" => writer # 0
    /\ Rollback(t)
    /\ UNCHANGED <<storeVars, today, form>>
    /\ UNCHANGED adminVars

(***************************************************************************)
(* datetime.now() passes midnight.                                         *)
(***************************************************************************)
Tick ==
    /\ today < MaxDay
    /\ today' = today + 1
    /\ UNCHANGED <<storeVars, writer, threadVars>>
    /\ UNCHANGED adminVars

(***************************************************************************)
(* Product images.  An uploaded file is a name with an extension and the   *)
(* second it arrives in; it is saved as f"{timestamp}_{filename}".         *)
(***************************************************************************)
ALLOWED_EXTENSIONS == {"png", "jpg", "jpeg", "gif", "webp"}

NoFile  == [stem |-> "", ext |-> "", timestamp |-> 0]   \* no file in the request
NoImage == NoFile                                       \* image_filename IS NULL

allowed_file(file) == file.ext \in ALLOWED_EXTENSIONS

\* the validation without the comparison of the two prices
ProductFormError_NoMargin(f) ==
    IF f.name = "" THEN "Product name is required"
    ELSE IF f.buying_price < 0 \/ f.selling_price < 0 \/ f.quantity < 0
    THEN "Prices and quantity must be non-negative"
    ELSE ""

(***************************************************************************)
(* admin_add_product / admin_edit_product, "Validate".  The result is the  *)
(* message flashed, "" when the form passes.                               *)
(***************************************************************************)
ProductFormError(f) ==
    IF f.name = "" THEN "Product name is required"
    ELSE IF f.buying_price < 0 \/ f.selling_price < 0 \/ f.quantity < 0
    THEN "Prices and quantity must be non-negative"
    ELSE IF f.selling_price <= f.buying_price
    THEN "Selling price must be greater than buying price"
    ELSE ""

(***************************************************************************)
(* Database.add_product: INSERT INTO products ...; commit.                 *)
(***************************************************************************)
add_product(name, buying_price, selling_price, quantity, image_filename) ==
    /\ products' = products \cup
          { [id |-> sqlite_sequence.products + 1, name |-> name,
             buying_price |-> buying_price, selling_price |-> selling_price,
             quantity |-> quantity, image_filename |-> image_filename] }
    /\ sqlite_sequence' = [sqlite_sequence EXCEPT !.products = @ + 1]

(***************************************************************************)
(* admin_add_product (POST).  A rejected form leaves everything as it is.  *)
(* Writes wait for the write lock (busy_timeout).                          *)
(***************************************************************************)
AdminAddProduct(f, file) ==
    /\ writer = 0
    /\ sqlite_sequence.products < MaxProducts
    /\ IF ProductFormError(f) # "" \/ (file # NoFile /\ ~allowed_file(file))
       THEN UNCHANGED <<products, sqlite_sequence, uploads>>
       ELSE /\ uploads' = IF file # NoFile THEN uploads \cup {file} ELSE uploads
            /\ add_product(f.name, f.buying_price, f.selling_price, f.quantity, file)
    /\ UNCHANGED <<sales, expense_categories, expenses, today, writer, threadVars>>
    /\ UNCHANGED adminVars

(***************************************************************************)
(* create_test_data: when the products table is empty, the six test        *)
(* products are added, one add_product call each.                          *)
(***************************************************************************)
test_products == <<
    [name |-> "Sugar 1kg",       buying_price |-> 100, selling_price |-> 120, quantity |-> 50],
    [name |-> "Rice 2kg",        buying_price |-> 200, selling_price |-> 250, quantity |-> 30],
    [name |-> "Cooking Oil 1L",  buying_price |-> 300, selling_price |-> 350, quantity |-> 20],
    [name |-> "Tea Leaves 250g", buying_price |-> 150, selling_price |-> 180, quantity |-> 40],
    [name |-> "Wheat Flour 2kg", buying_price |-> 180, selling_price |-> 220, quantity |-> 25],
    [name |-> "Salt 500g",       buying_price |-> 50,  selling_price |-> 70,  quantity |-> 60] >>

CreateTestData ==
    /\ writer = 0
    /\ IF products = {}
       THEN /\ products' =
                 { [id |-> sqlite_sequence.products + i, name |-> test_products[i].name,
                    buying_price |-> test_products[i].buying_price,
                    selling_price |-> test_products[i].selling_price,
                    quantity |-> test_products[i].quantity,
                    image_filename |-> NoImage] : i \in 1..Len(test_products) }
            /\ sqlite_sequence' =
                 [sqlite_sequence EXCEPT !.products = @ + Len(test_products)]
       ELSE UNCHANGED <<products, sqlite_sequence>>
    /\ UNCHANGED <<sales, expense_categories, expenses, uploads, today, writer, threadVars>>
    /\ UNCHANGED adminVars

(***************************************************************************)
(* Database.update_product: one UPDATE of the products row; the image      *)
(* column is written only when an image_filename is given.                 *)
(***************************************************************************)
\* the edit also recomputes the product's sales at the new prices
update_product_Reprice(product_id, name, buying_price, selling_price, quantity, image_filename) ==
    /\ products' =
          { IF p.id = product_id
            THEN [p EXCEPT !.name = name,
                           !.buying_price = buying_price,
                           !.selling_price = selling_price,
                           !.quantity = quantity]
            ELSE p : p \in products }
    /\ sales' =
          { IF s.product_id = product_id
            THEN [s EXCEPT !.total_price = selling_price * s.quantity_sold,
                           !.profit = (selling_price - buying_price) * s.quantity_sold]
            ELSE s : s \in sales }
    /\ UNCHANGED <<expense_categories, expenses, sqlite_sequence>>

update_product(product_id, name, buying_price, selling_price, quantity, image_filename) ==
    /\ products' =
          { IF p.id = product_id
            THEN [p EXCEPT !.name = name,
                           !.buying_price = buying_price,
                           !.selling_price = selling_price,
                           !.quantity = quantity,
                           !.image_filename =
                               IF image_filename # NoImage THEN image_filename ELSE @]
            ELSE p : p \in products }
    /\ UNCHANGED <<sales, expense_categories, expenses, sqlite_sequence>>

(***************************************************************************)
(* admin_edit_product (POST).                                              *)
(***************************************************************************)
AdminEditProduct(product_id, f, file) ==
    /\ writer = 0
    /\ LET p == get_product_by_id(product_id)
       IN  IF \/ p = None
              \/ ProductFormError(f) # ""
              \/ (file # NoFile /\ ~allowed_file(file))
           THEN UNCHANGED storeVars
           ELSE /\ uploads' = IF file # NoFile
                              THEN (uploads \ {p.image_filename}) \cup {file}
                              ELSE uploads
                /\ update_product(product_id, f.name, f.buying_price, f.selling_price,
                                  f.quantity,
                                  IF file # NoFile THEN file ELSE p.image_filename)
    /\ UNCHANGED <<today, writer, threadVars>>
    /\ UNCHANGED adminVars

(***************************************************************************)
(* Database.delete_product, called by admin_delete_product: the image file *)
(* is removed first, then DELETE FROM products, which the foreign key of   *)
(* sales refuses while a sale refers to the product (IntegrityError,       *)
(* rollback).                                                              *)
(***************************************************************************)
delete_product(product_id) ==
    LET p == get_product_by_id(product_id)
    IN  /\ uploads' = IF p # None /\ p.image_filename # NoImage
                      THEN uploads \ {p.image_filename}
                      ELSE uploads
        /\ products' = IF \E s \in sales : s.product_id = product_id
                       THEN products
                       ELSE {r \in products : r.id # product_id}

AdminDeleteProduct(product_id) ==
    /\ writer = 0
    /\ delete_product(product_id)
    /\ UNCHANGED <<sales, expense_categories, expenses, sqlite_sequence,
                   today, writer, threadVars>>
    /\ UNCHANGED adminVars

(***************************************************************************)
(* Database.add_expense: INSERT INTO expenses ... datetime.now(); commit.  *)
(* The foreign key refuses a category_id that names no category.           *)
(***************************************************************************)
add_expense(category_id, amount) ==
    IF \E c \in expense_categories : c.id = category_id
    THEN /\ expenses' = expenses \cup
               { [id |-> sqlite_sequence.expenses + 1, category_id |-> category_id,
                  amount |-> amount, expense_date |-> today] }
         /\ sqlite_sequence' = [sqlite_sequence EXCEPT !.expenses = @ + 1]
    ELSE UNCHANGED <<expenses, sqlite_sequence>>

(***************************************************************************)
(* admin_add_expense (POST).  category_id 0 stands for none selected.      *)
(***************************************************************************)
AdminAddExpense(category_id, amount) ==
    /\ writer = 0
    /\ sqlite_sequence.expenses < MaxExpenses
    /\ IF category_id = 0 \/ amount <= 0
       THEN UNCHANGED <<expenses, sqlite_sequence>>
       ELSE add_expense(category_id, amount)
    /\ UNCHANGED <<products, sales, expense_categories, uploads,
                   today, writer, threadVars>>
    /\ UNCHANGED adminVars

(***************************************************************************)
(* Database.delete_expense, called by admin_delete_expense.                *)
(***************************************************************************)
delete_expense(expense_id) ==
    expenses' = {e \in expenses : e.id # expense_id}

AdminDeleteExpense(expense_id) ==
    /\ writer = 0
    /\ delete_expense(expense_id)
    /\ UNCHANGED <<products, sales, expense_categories, sqlite_sequence, uploads,
                   today, writer, threadVars>>
    /\ UNCHANGED adminVars

(***************************************************************************)
(* Users.  add_user, delete_user and update_user_role each read the users  *)
(* table with SELECTs, which run outside any transaction and see the rows  *)
(* committed at that moment, and then write with one statement and commit. *)
(* call[t].pc is the position of thread t inside the method.               *)
(***************************************************************************)
Admins == {u \in users : u.role = "admin"}

Return(t, result) ==
    call' = [call EXCEPT ![t] = [@ EXCEPT !.pc = "idle", !.result = result]]

Goto(t, position) ==
    call' = [call EXCEPT ![t] = [@ EXCEPT !.pc = position]]

\* len(password) of the passwords the forms carry
PasswordLen(password) ==
    CASE password = ""        -> 0
      [] password = "abc"     -> 3
      [] password = "secret1" -> 7

UserForm(username, password, confirm_password, role) ==
    [username |-> username, password |-> password,
     confirm_password |-> confirm_password, role |-> role]

\* add_user (route): "Validate"
UserFormError(f) ==
    IF f.username = "" \/ f.password = "" THEN "Username and password are required"
    ELSE IF f.password # f.confirm_password THEN "Passwords do not match"
    ELSE IF PasswordLen(f.password) < 6 THEN "Password must be at least 6 characters"
    ELSE ""

(***************************************************************************)
(* add_user (route) up to Database.add_user's SELECT for the username.     *)
(***************************************************************************)
AddUser_Request(t, f) ==
    /\ call[t].pc = "idle"
    /\ sqlite_sequence.users < Len(default_users) + MaxUsers
    /\ LET role == IF f.role \notin {"admin", "employee"} THEN "employee" ELSE f.role
           this == [op |-> "add_user", pc |-> "insert", user_id |-> 0,
                    username |-> f.username, password |-> f.password,
                    role |-> role, result |-> ""]
       IN  call' = [call EXCEPT ![t] =
                IF UserFormError(f) # ""
                THEN [this EXCEPT !.pc = "idle", !.result = UserFormError(f)]
                ELSE IF \E u \in users : u.username = f.username
                THEN [this EXCEPT !.pc = "idle", !.result = "Username already exists"]
                ELSE this]
    /\ UNCHANGED <<storeVars, today, writer, threadVars, users, page>>

(***************************************************************************)
(* Database.add_user: INSERT INTO users; commit.  username is UNIQUE, so   *)
(* the insert fails when another call committed the name meanwhile.        *)
(***************************************************************************)
AddUser_Insert(t) ==
    /\ call[t].pc = "insert"
    /\ writer = 0
    /\ IF \E u \in users : u.username = call[t].username
       THEN /\ Return(t, "UNIQUE constraint failed: users.username")
            /\ UNCHANGED <<users, sqlite_sequence>>
       ELSE /\ users' = users \cup
                   { [id |-> sqlite_sequence.users + 1, username |-> call[t].username,
                      password |-> call[t].password, role |-> call[t].role] }
            /\ sqlite_sequence' = [sqlite_sequence EXCEPT !.users = @ + 1]
            /\ Return(t, "True")
    /\ UNCHANGED <<products, sales, expense_categories, expenses, uploads,
                   today, writer, threadVars, page>>

(***************************************************************************)
(* delete_user (route) up to Database.delete_user's SELECT role.           *)
(***************************************************************************)
DeleteUser_Request(t, user_id) ==
    /\ call[t].pc = "idle"
    /\ LET user == Row(users, user_id)
       IN  call' = [call EXCEPT ![t] =
                [op |-> "delete_user", user_id |-> user_id, username |-> "",
                 password |-> "", role |-> "", result |-> "",
                 pc |-> IF user # None /\ user.role = "admin"
                        THEN "count_admins" ELSE "write"]]
    /\ UNCHANGED <<storeVars, today, writer, threadVars, users, page>>

(***************************************************************************)
(* Database.update_user_role up to its SELECT role, which it runs only     *)
(* when the new role is not admin.                                         *)
(***************************************************************************)
UpdateUserRole_Request(t, user_id, new_role) ==
    /\ call[t].pc = "idle"
    /\ LET current_user == Row(users, user_id)
       IN  call' = [call EXCEPT ![t] =
                [op |-> "update_user_role", user_id |-> user_id, username |-> "",
                 password |-> "", role |-> new_role, result |-> "",
                 pc |-> IF new_role # "admin" /\ current_user # None
                           /\ current_user.role = "admin"
                        THEN "count_admins" ELSE "write"]]
    /\ UNCHANGED <<storeVars, today, writer, threadVars, users, page>>

\* the check that skips the count: every admin passes as one of several
LastAdminCheck_Off(t) ==
    /\ call[t].pc = "count_admins"
    /\ Goto(t, "write")
    /\ UNCHANGED <<storeVars, today, writer, threadVars, users, page>>

(***************************************************************************)
(* delete_user / update_user_role: SELECT COUNT ... WHERE role = admin,    *)
(* and the exception when the count is 1 or less.                          *)
(***************************************************************************)
LastAdminCheck(t) ==
    /\ call[t].pc = "count_admins"
    /\ IF Cardinality(Admins) <= 1
       THEN Return(t, IF call[t].op = "delete_user"
                      THEN "Cannot delete the last admin user"
                      ELSE "Cannot change the last admin to employee")
       ELSE Goto(t, "write")
    /\ UNCHANGED <<storeVars, today, writer, threadVars, users, page>>

(***************************************************************************)
(* Database.delete_user: DELETE FROM users WHERE id = ?; commit.           *)
(***************************************************************************)
DeleteUser_Delete(t) ==
    /\ call[t].pc = "write" /\ call[t].op = "delete_user"
    /\ writer = 0
    /\ users' = {u \in users : u.id # call[t].user_id}
    /\ Return(t, "True")
    /\ UNCHANGED <<storeVars, today, writer, threadVars, page>>

(***************************************************************************)
(* Database.update_user_role: UPDATE users SET role = ? WHERE id = ?.      *)
(***************************************************************************)
UpdateUserRole_Update(t) ==
    /\ call[t].pc = "write" /\ call[t].op = "update_user_role"
    /\ writer = 0
    /\ users' = { IF u.id = call[t].user_id THEN [u EXCEPT !.role = call[t].role]
                  ELSE u : u \in users }
    /\ Return(t, "True")
    /\ UNCHANGED <<storeVars, today, writer, threadVars, page>>

(***************************************************************************)
(* Bulk deletion.  delete_all_data and delete_specific_data open their own *)
(* connection with sqlite3.connect: no PRAGMA foreign_keys, so no foreign  *)
(* key is enforced on it, and the default timeout of 5 seconds, after      *)
(* which a statement that needs the write lock another connection holds    *)
(* raises "database is locked".  page is the JSON the request answers.     *)
(***************************************************************************)
Json(view, success, error) == [view |-> view, success |-> success, error |-> error]

Locked == "Error deleting data: database is locked"

\* confirm_text.strip().lower() of the texts the requests carry
StripLower(confirm_text) ==
    CASE confirm_text = "delete all data"   -> "delete all data"
      [] confirm_text = " DELETE ALL DATA " -> "delete all data"
      [] confirm_text = "yes"               -> "yes"
      [] confirm_text = ""                  -> ""

(***************************************************************************)
(* Database.init_db on the existing file: a default user whose username is *)
(* not in users is inserted; INSERT OR IGNORE of the default categories.   *)
(***************************************************************************)
MissingDefaultUsers ==
    {i \in 1..Len(default_users) : \A u \in users : u.username # default_users[i].username}

init_db_users ==
    users \cup
      { [id |-> sqlite_sequence.users + Cardinality({j \in MissingDefaultUsers : j <= i}),
         username |-> default_users[i].username,
         password |-> default_users[i].password,
         role |-> default_users[i].role] : i \in MissingDefaultUsers }

\* the categories init_db leaves in a table that was emptied and whose
\* sqlite_sequence row was deleted
init_db_categories ==
    { [id |-> i, name |-> default_categories[i].name,
       category_type |-> default_categories[i].category_type]
      : i \in 1..Len(default_categories) }

(***************************************************************************)
(* delete_all_data (POST).  BEGIN; the five DELETEs; commit; db.init_db(). *)
(* The image files stay in the upload folder.                              *)
(***************************************************************************)
DeleteAllData(confirm_text) ==
    /\ sqlite_sequence.users + Cardinality(MissingDefaultUsers)
          <= Len(default_users) + MaxUsers
    /\ IF StripLower(confirm_text) # "delete all data"
       THEN /\ page' = Json("delete_all_data", FALSE, "Confirmation text incorrect")
            /\ UNCHANGED <<storeVars, users>>
       ELSE IF writer # 0
       THEN /\ page' = Json("delete_all_data", FALSE, Locked)
            /\ UNCHANGED <<storeVars, users>>
       ELSE /\ sales' = {}
            /\ expenses' = {}
            /\ products' = {}
            /\ expense_categories' = init_db_categories
            /\ users' = init_db_users
            /\ sqlite_sequence' =
                  [products |-> 0, sales |-> 0, expenses |-> 0,
                   expense_categories |-> Len(default_categories),
                   users |-> sqlite_sequence.users + Cardinality(MissingDefaultUsers)]
            /\ page' = Json("delete_all_data", TRUE, "")
            /\ UNCHANGED uploads
    /\ UNCHANGED <<today, writer, threadVars, call>>

\* the image files of the products: SELECT image_filename FROM products
\* WHERE image_filename IS NOT NULL
ProductImages == {q.image_filename : q \in {r \in products : r.image_filename # NoImage}}

(***************************************************************************)
(* delete_specific_data (POST).  The first DELETE takes the write lock;    *)
(* when only products are selected the image files are removed before it.  *)
(***************************************************************************)
DeleteSpecificData(data_types) ==
    /\ IF data_types = {}
       THEN /\ page' = Json("delete_specific_data", FALSE, "No data types selected")
            /\ UNCHANGED storeVars
       ELSE IF writer # 0
       THEN /\ page' = Json("delete_specific_data", FALSE, Locked)
            /\ uploads' = IF data_types = {"products"}
                          THEN uploads \ ProductImages ELSE uploads
            /\ UNCHANGED <<products, sales, expense_categories, expenses, sqlite_sequence>>
       ELSE /\ sales' = IF "sales" \in data_types THEN {} ELSE sales
            /\ expenses' = IF "expenses" \in data_types THEN {} ELSE expenses
            /\ expense_categories' =
                  IF "expenses" \in data_types THEN {} ELSE expense_categories
            /\ products' = IF "products" \in data_types THEN {} ELSE products
            /\ uploads' = IF "products" \in data_types
                          THEN uploads \ ProductImages ELSE uploads
            /\ page' = Json("delete_specific_data", TRUE, "")
            /\ UNCHANGED sqlite_sequence
    /\ UNCHANGED <<today, writer, threadVars, users, call>>

(***************************************************************************)
(* Numbers in forms.  A form field is text; int() and float() turn it into *)
(* a number or raise ValueError (ok = FALSE).                               *)
(***************************************************************************)
ParseInt(text) ==
    CASE text = "1"    -> [ok |-> TRUE,  value |-> 1]
      [] text = "0"    -> [ok |-> TRUE,  value |-> 0]
      [] text = "-1"   -> [ok |-> TRUE,  value |-> 0 - 1]
      [] text = "abc"  -> [ok |-> FALSE, value |-> 0]
      [] text = ""     -> [ok |-> FALSE, value |-> 0]

ParseFloat(text) ==
    CASE text = "5000" -> [ok |-> TRUE,  value |-> 5000]
      [] text = "2000" -> [ok |-> TRUE,  value |-> 2000]
      [] text = "0"    -> [ok |-> TRUE,  value |-> 0]
      [] text = "-1"   -> [ok |-> TRUE,  value |-> 0 - 1]
      [] text = "abc"  -> [ok |-> FALSE, value |-> 0]
      [] text = ""     -> [ok |-> FALSE, value |-> 0]

(***************************************************************************)
(* sell_product (POST) from the form's text: the product is looked at      *)
(* first, then int(quantity_str).                                          *)
(***************************************************************************)
SellProduct_Post(t, product_id, quantity_str) ==
    IF product_id # 0 /\ ~ParseInt(quantity_str).ok
    THEN /\ pc[t] = "idle"
         /\ sqlite_sequence.sales + Cardinality(Running) < MaxSales
         /\ Respond(t, "Invalid quantity")
         /\ UNCHANGED <<storeVars, today, writer, form, tx>>
         /\ UNCHANGED adminVars
    ELSE Sell_Request(t, product_id, ParseInt(quantity_str).value)

(***************************************************************************)
(* admin_add_expense (POST) from the form's text.                          *)
(***************************************************************************)
AdminAddExpense_Post(category_id, amount_str) ==
    IF category_id # 0 /\ ~ParseFloat(amount_str).ok
    THEN /\ writer = 0
         /\ sqlite_sequence.expenses < MaxExpenses
         /\ UNCHANGED vars
    ELSE AdminAddExpense(category_id, ParseFloat(amount_str).value)

(***************************************************************************)
(* simple_profit_calculator (POST).  The eight amounts are read and saved  *)
(* one after the other, each by its own add_expense_category / add_expense *)
(* call and commit; a category is found by its name or created as an       *)
(* operating one.  float() of a field raises inside the handler's try,     *)
(* which flashes the error: what was saved before stays saved.             *)
(***************************************************************************)
CalculatorFields == <<
    [field |-> "rent",              category_name |-> "Rent"],
    [field |-> "owner_salary",      category_name |-> "Owner Salary"],
    [field |-> "employee_salaries", category_name |-> "Employee Salaries"],
    [field |-> "electricity",       category_name |-> "Electricity"],
    [field |-> "water",             category_name |-> "Water"],
    [field |-> "transport",         category_name |-> "Transport"],
    [field |-> "advertising",       category_name |-> "Advertising"],
    [field |-> "miscellaneous",     category_name |-> "Miscellaneous Expenses"] >>

\* save_expense(category_name, amount, description) on the tables of st
save_expense(st, category_name, amount) ==
    IF amount <= 0 THEN st
    ELSE LET known == {c \in st.expense_categories : c.name = category_name}
             category_id == IF known # {} THEN (CHOOSE c \in known : TRUE).id
                            ELSE st.categories_sequence + 1
         IN  [st EXCEPT
                !.expense_categories =
                    IF known # {} THEN @
                    ELSE @ \cup {[id |-> category_id, name |-> category_name,
                                  category_type |-> "operating"]},
                !.categories_sequence = IF known # {} THEN @ ELSE category_id,
                !.expenses = @ \cup {[id |-> st.expenses_sequence + 1,
                                      category_id |-> category_id,
                                      amount |-> amount, expense_date |-> today]},
                !.expenses_sequence = @ + 1]

RECURSIVE SaveExpenses(_, _, _)
SaveExpenses(data, i, st) ==
    IF i > Len(CalculatorFields) THEN st
    ELSE LET amount == ParseFloat(data[CalculatorFields[i].field])
         IN  IF ~amount.ok THEN [st EXCEPT !.error = TRUE]
             ELSE SaveExpenses(data, i + 1,
                     save_expense(st, CalculatorFields[i].category_name, amount.value))

SimpleProfitCalculator(data) ==
    /\ writer = 0
    /\ LET st == SaveExpenses(data, 1,
                    [expense_categories |-> expense_categories,
                     categories_sequence |-> sqlite_sequence.expense_categories,
                     expenses |-> expenses,
                     expenses_sequence |-> sqlite_sequence.expenses,
                     error |-> FALSE])
       IN  /\ st.expenses_sequence <= MaxExpenses
           /\ expense_categories' = st.expense_categories
           /\ expenses' = st.expenses
           /\ sqlite_sequence' =
                 [sqlite_sequence EXCEPT !.expense_categories = st.categories_sequence,
                                         !.expenses = st.expenses_sequence]
           /\ page' = Json("simple_profit_calculator", ~st.error,
                           IF st.error THEN "Error saving expenses" ELSE "")
    /\ UNCHANGED <<products, sales, uploads, today, writer, threadVars, users, call>>

(***************************************************************************)
(* Reports.  Every report is a SELECT over the committed rows; self is the *)
(* database the method's connection reads, db the database as it stands.   *)
(***************************************************************************)
db == [products |-> products, sales |-> sales,
       expense_categories |-> expense_categories, expenses |-> expenses]

\* the products sold counted in place of the sales
get_sales_summary_Distinct(self) ==
    [total_sales        |-> Cardinality({x.product_id : x \in self.sales}),
     total_revenue      |-> SUM(self.sales, "total_price"),
     total_gross_profit |-> SUM(self.sales, "profit")]

\* Database.get_sales_summary
get_sales_summary(self) ==
    [total_sales        |-> Cardinality(self.sales),
     total_revenue      |-> SUM(self.sales, "total_price"),
     total_gross_profit |-> SUM(self.sales, "profit")]

(***************************************************************************)
(* ORDER BY.  SQLite returns rows with equal keys in an order the query    *)
(* does not fix, so a sorted query has every sequence of its rows that     *)
(* respects the key as a possible result.                                  *)
(***************************************************************************)
Enumerations(rows) ==
    {seq \in [1..Cardinality(rows) -> rows] :
        \A i, j \in 1..Cardinality(rows) : i # j => seq[i] # seq[j]}

OrderByDesc(rows, col) ==
    {seq \in Enumerations(rows) :
        \A i, j \in 1..Len(seq) : i < j => seq[i][col] >= seq[j][col]}

OrderByAsc(rows, col) ==
    {seq \in Enumerations(rows) :
        \A i, j \in 1..Len(seq) : i < j => seq[i][col] <= seq[j][col]}

\* LIMIT ?: the first rows; a negative limit is no limit
Limit(seq, limit) ==
    IF limit < 0 \/ limit >= Len(seq) THEN seq ELSE SubSeq(seq, 1, limit)

\* the join that keeps only the products with a sale
ProductSales_InnerJoin(self) ==
    { [p |-> q,
       quantity_sold |-> SUM({x \in self.sales : x.product_id = q.id}, "quantity_sold"),
       total_price   |-> SUM({x \in self.sales : x.product_id = q.id}, "total_price"),
       profit        |-> SUM({x \in self.sales : x.product_id = q.id}, "profit")]
      : q \in {r \in self.products : \E x \in self.sales : x.product_id = r.id} }

\* FROM products p LEFT JOIN sales s ON p.id = s.product_id GROUP BY p.id
\* with COALESCE(SUM(...), 0): one group per product, its sales summed
ProductSales(self) ==
    { [p |-> q,
       quantity_sold |-> SUM({x \in self.sales : x.product_id = q.id}, "quantity_sold"),
       total_price   |-> SUM({x \in self.sales : x.product_id = q.id}, "total_price"),
       profit        |-> SUM({x \in self.sales : x.product_id = q.id}, "profit")]
      : q \in self.products }

\* Database.get_profit_per_product: the possible result lists
get_profit_per_product(self) ==
    { [i \in 1..Len(seq) |->
          [product_name   |-> seq[i].p.name,
           image_filename |-> seq[i].p.image_filename,
           total_quantity |-> seq[i].quantity_sold,
           total_revenue  |-> seq[i].total_price,
           total_profit   |-> seq[i].profit]]
      : seq \in OrderByDesc(ProductSales(self), "profit") }

\* the worst sellers first
get_best_selling_products_Asc(self, limit) ==
    { [i \in 1..Len(Limit(seq, limit)) |->
          [name           |-> seq[i].p.name,
           image_filename |-> seq[i].p.image_filename,
           total_sold     |-> seq[i].quantity_sold,
           total_revenue  |-> seq[i].total_price]]
      : seq \in OrderByAsc(ProductSales(self), "quantity_sold") }

\* Database.get_best_selling_products: the possible result lists
get_best_selling_products(self, limit) ==
    { [i \in 1..Len(Limit(seq, limit)) |->
          [name           |-> seq[i].p.name,
           image_filename |-> seq[i].p.image_filename,
           total_sold     |-> seq[i].quantity_sold,
           total_revenue  |-> seq[i].total_price]]
      : seq \in OrderByDesc(ProductSales(self), "quantity_sold") }

\* the threshold itself is left out
get_low_stock_products_Below(self, threshold) ==
    OrderByAsc({q \in self.products : q.quantity < threshold}, "quantity")

\* Database.get_low_stock_products: SELECT * ... WHERE quantity <= ?
\* ORDER BY quantity ASC; the possible result lists
get_low_stock_products(self, threshold) ==
    OrderByAsc({q \in self.products : q.quantity <= threshold}, "quantity")

(***************************************************************************)
(* DATE('now') is SQLite's date in UTC, while record_sale stamps sale_date *)
(* with datetime.now(), the server's local time.  The two dates agree or   *)
(* differ by one day, according to the server's time zone and the hour.    *)
(***************************************************************************)
SqliteNow(local_date) == {local_date - 1, local_date, local_date + 1}

\* Database.get_daily_profit_trend; now is DATE('now').  The groups have
\* different dates, so ORDER BY date fixes the list.
get_daily_profit_trend(self, now, days) ==
    LET recent == {x \in self.sales : x.sale_date >= now - days}
        rows == { [date               |-> d,
                   daily_gross_profit |-> SUM({x \in recent : x.sale_date = d}, "profit"),
                   daily_revenue      |-> SUM({x \in recent : x.sale_date = d}, "total_price")]
                  : d \in {x.sale_date : x \in recent} }
    IN  CHOOSE seq \in OrderByAsc(rows, "date") : TRUE

\* the end of the range is left out
SalesWhere_Exclusive(s, start_date, end_date) ==
    IF start_date # NoDate /\ end_date # NoDate
    THEN start_date <= s.sale_date /\ s.sale_date < end_date
    ELSE IF start_date # NoDate THEN s.sale_date >= start_date
    ELSE IF end_date # NoDate THEN s.sale_date < end_date
    ELSE TRUE

\* get_profit_analysis: the WHERE clause appended to the sales query
SalesWhere(s, start_date, end_date) ==
    IF start_date # NoDate /\ end_date # NoDate
    THEN start_date <= s.sale_date /\ s.sale_date <= end_date      \* BETWEEN ? AND ?
    ELSE IF start_date # NoDate THEN s.sale_date >= start_date
    ELSE IF end_date # NoDate THEN s.sale_date <= end_date
    ELSE TRUE

(***************************************************************************)
(* Amounts.  amount is a REAL column and a Python float: a sum is rounded   *)
(* to the significand after every addition, to the nearest value and to    *)
(* the even one on a tie.  The model keeps the format with a significand   *)
(* of MantissaBits bits in place of the 53 of a double: every amount of    *)
(* the shop's forms, and every sum of a few of them, is exact in it.       *)
(***************************************************************************)
MantissaBits == 11

\* the distance between neighbouring values of the format at x >= 0
RECURSIVE Ulp(_)
Ulp(x) == IF x < 2^MantissaBits THEN 1 ELSE 2 * Ulp(x \div 2)

RoundFloat(x) ==
    LET ulp == Ulp(x)
        q   == x \div ulp
        r   == x % ulp
    IN  IF 2 * r < ulp THEN q * ulp
        ELSE IF 2 * r > ulp THEN (q + 1) * ulp
        ELSE IF q % 2 = 0 THEN q * ulp ELSE (q + 1) * ulp

\* x + y on two floats
FAdd(x, y) == RoundFloat(x + y)

\* get_expense_summary: FROM expense_categories ec LEFT JOIN expenses e.
\* A category without expenses gives one row whose e columns are NULL.
ExpenseJoin(self) ==
    {[ec |-> Row(self.expense_categories, e.category_id), e |-> e] :
        e \in {x \in self.expenses :
                 \E c \in self.expense_categories : c.id = x.category_id}}
    \cup
    {[ec |-> c, e |-> None] :
        c \in {k \in self.expense_categories :
                 k.id \notin {e.category_id : e \in self.expenses}}}

\* get_expense_summary: the WHERE clause appended to the join.  DATE(NULL)
\* compares as NULL, so a filtered query drops the rows without an expense.
ExpenseWhere(row, start_date, end_date) ==
    IF start_date # NoDate /\ end_date # NoDate
    THEN row.e # None /\ start_date <= row.e.expense_date /\ row.e.expense_date <= end_date
    ELSE IF start_date # NoDate THEN row.e # None /\ row.e.expense_date >= start_date
    ELSE IF end_date # NoDate THEN row.e # None /\ row.e.expense_date <= end_date
    ELSE TRUE

\* The join walks the categories by id and reaches the expenses of each
\* through the automatic index SQLite builds on (category_id, amount): the
\* rows of a group come category by category and, within one, by amount
\* and then by rowid.
JoinPrecedes(x, y) ==
    \/ x.ec.id < y.ec.id
    \/ /\ x.ec.id = y.ec.id
       /\ \/ x.e.amount < y.e.amount
          \/ x.e.amount = y.e.amount /\ x.e.id <= y.e.id

\* each amount is added to the sum so far, in the order the rows come
RECURSIVE SumInJoinOrder(_)
SumInJoinOrder(rows) ==
    IF rows = {} THEN 0
    ELSE LET last == CHOOSE r \in rows : \A x \in rows : JoinPrecedes(x, r)
         IN  FAdd(SumInJoinOrder(rows \ {last}), last.e.amount)

\* COALESCE(SUM(e.amount), 0) over join rows: SUM skips the NULL amounts
SumAmount(rows) == SumInJoinOrder({r \in rows : r.e # None})

\* the sum is not split by category type
get_expense_summary_Ungrouped(self, start_date, end_date) ==
    LET rows == {r \in ExpenseJoin(self) : ExpenseWhere(r, start_date, end_date)}
    IN  [ty \in {r.ec.category_type : r \in rows} |-> SumAmount(rows)]

\* Database.get_expense_summary: {category_type: total_amount}, one key per
\* category type left after the WHERE
get_expense_summary(self, start_date, end_date) ==
    LET rows == {r \in ExpenseJoin(self) : ExpenseWhere(r, start_date, end_date)}
    IN  [ty \in {r.ec.category_type : r \in rows} |->
            SumAmount({r \in rows : r.ec.category_type = ty})]

(***************************************************************************)
(* Database.get_expenses_by_category: the same join and WHERE as           *)
(* get_expense_summary, grouped by category; COUNT(e.id) skips the NULLs   *)
(* of a category that joined no expense.  The value is the set of rows;    *)
(* the query returns them by total_amount, largest first.                  *)
(***************************************************************************)
get_expenses_by_category(self, start_date, end_date) ==
    LET rows == {r \in ExpenseJoin(self) : ExpenseWhere(r, start_date, end_date)}
    IN  { [id |-> c.id, category_name |-> c.name, category_type |-> c.category_type,
           total_amount  |-> SumAmount({r \in rows : r.ec = c}),
           expense_count |-> Cardinality({r \in rows : r.ec = c /\ r.e # None})]
          : c \in {r.ec : r \in rows} }

\* dict.get(key, 0)
Get(dict, key) == IF key \in DOMAIN dict THEN dict[key] ELSE 0

\* a / b * 100 kept as the exact fraction num/den; den = 0 is the
\* ZeroDivisionError Python raises
Percent(a, b) == [num |-> a * 100, den |-> b]
Zero == [num |-> 0, den |-> 1]

\* every expense is subtracted, the cogs ones too
NetProfit_AllExpenses(total_gross_profit, total_cogs, total_operating_expenses) ==
    total_gross_profit - total_cogs - total_operating_expenses

NetProfit(total_gross_profit, total_cogs, total_operating_expenses) ==
    total_gross_profit - total_operating_expenses

TotalExpenses(total_cogs, total_operating_expenses) ==
    FAdd(total_cogs, total_operating_expenses)

\* the division without its guard
Margin_Unguarded(profit, total_revenue) == Percent(profit, total_revenue)

Margin(profit, total_revenue) ==
    IF total_revenue > 0 THEN Percent(profit, total_revenue) ELSE Zero

\* the growth rate without the test on the first day's revenue
GrowthRate_Unguarded(daily_trend) ==
    IF Len(daily_trend) >= 2
    THEN LET first_day == Get(daily_trend[1], "daily_revenue")
             last_day  == Get(daily_trend[Len(daily_trend)], "daily_revenue")
         IN  Percent(last_day - first_day, first_day)
    ELSE Zero

\* admin_reports, "Growth rate"
GrowthRate(daily_trend) ==
    IF Len(daily_trend) >= 2
    THEN LET first_day == Get(daily_trend[1], "daily_revenue")
             last_day  == Get(daily_trend[Len(daily_trend)], "daily_revenue")
         IN  IF first_day > 0 THEN Percent(last_day - first_day, first_day) ELSE Zero
    ELSE Zero

\* admin_reports from the growth rate on: the page shows the rate worked
\* out from the trend the handler fetched
AdminReports_GrowthRate ==
    /\ page.view = "reports" /\ page.step = "daily_trend"
    /\ page' = [view |-> "reports", step |-> "growth_rate",
                daily_trend |-> page.daily_trend,
                growth_rate |-> GrowthRate(page.daily_trend)]
    /\ UNCHANGED <<storeVars, today, writer, threadVars, users, call>>

\* Database.get_profit_analysis
get_profit_analysis(self, start_date, end_date) ==
    LET in_range           == {s \in self.sales : SalesWhere(s, start_date, end_date)}
        total_revenue      == SUM(in_range, "total_price")
        total_gross_profit == SUM(in_range, "profit")
        expense_summary    == get_expense_summary(self, start_date, end_date)
        total_cogs         == Get(expense_summary, "cogs")
        total_operating_expenses == Get(expense_summary, "operating")
        net_profit == NetProfit(total_gross_profit, total_cogs, total_operating_expenses)
    IN  [total_revenue            |-> total_revenue,
         total_gross_profit       |-> total_gross_profit,
         total_cogs               |-> total_cogs,
         total_operating_expenses |-> total_operating_expenses,
         total_expenses           |-> TotalExpenses(total_cogs, total_operating_expenses),
         net_profit               |-> net_profit,
         gross_profit_margin      |-> Margin(total_gross_profit, total_revenue),
         net_profit_margin        |-> Margin(net_profit, total_revenue)]

\* get_total_expenses: the WHERE clause on DATE(expense_date)
ExpensesWhere(e, start_date, end_date) ==
    IF start_date # NoDate /\ end_date # NoDate
    THEN start_date <= e.expense_date /\ e.expense_date <= end_date      \* BETWEEN ? AND ?
    ELSE IF start_date # NoDate THEN e.expense_date >= start_date
    ELSE IF end_date # NoDate THEN e.expense_date <= end_date
    ELSE TRUE

\* SUM(amount) FROM expenses: the table is scanned by rowid and each amount
\* added to the sum so far
RECURSIVE SumByRowid(_)
SumByRowid(rows) ==
    IF rows = {} THEN 0
    ELSE LET last == CHOOSE r \in rows : \A x \in rows : x.id <= r.id
         IN  FAdd(SumByRowid(rows \ {last}), last.amount)

\* Database.get_total_expenses
get_total_expenses(self, start_date, end_date) ==
    SumByRowid({e \in self.expenses : ExpensesWhere(e, start_date, end_date)})

\* sum(p.get(key, 0) for p in rows)
RECURSIVE SumOver(_, _)
SumOver(rows, key) ==
    IF rows = << >> THEN 0
    ELSE Get(Head(rows), key) + SumOver(Tail(rows), key)

(***************************************************************************)
(* admin_reports (GET) up to the net profit: the totals of the page come   *)
(* from the rows of get_profit_per_product, the expenses from               *)
(* get_total_expenses() without a range.                                   *)
(***************************************************************************)
admin_reports(self) ==
    LET profit_per_product == CHOOSE rows \in get_profit_per_product(self) : TRUE
        total_revenue      == SumOver(profit_per_product, "total_revenue")
        total_gross_profit == SumOver(profit_per_product, "total_profit")
        total_items        == SumOver(profit_per_product, "total_quantity")
        total_expenses     == get_total_expenses(self, NoDate, NoDate)
    IN  [total_revenue      |-> total_revenue,
         total_gross_profit |-> total_gross_profit,
         total_items        |-> total_items,
         total_expenses     |-> total_expenses,
         net_profit         |-> total_gross_profit - total_expenses]

\* GET /admin/reports: the page keeps the totals
AdminReports ==
    /\ page' = [view |-> "reports", step |-> "totals", totals |-> admin_reports(db)]
    /\ UNCHANGED <<storeVars, today, writer, threadVars, users, call>>

(***************************************************************************)
(* admin_profit_analysis (GET): reads the range from the query string,     *)
(* calls get_profit_analysis and renders the page.  The expense lists the  *)
(* page also shows come from get_expenses_by_category and are read-only    *)
(* too; the page keeps the figures.                                        *)
(***************************************************************************)
\* the handler that also stamps the day it ran on the figures
AdminProfitAnalysis_Stamped(start_date, end_date) ==
    /\ page' = [view |-> "profit_analysis", start_date |-> start_date,
                end_date |-> end_date,
                profit_data |-> [get_profit_analysis(db, start_date, end_date)
                                   EXCEPT !.total_expenses = @ + today]]
    /\ UNCHANGED <<storeVars, today, writer, threadVars, users, call>>

AdminProfitAnalysis(start_date, end_date) ==
    /\ page' = [view |-> "profit_analysis", start_date |-> start_date,
                end_date |-> end_date,
                profit_data |-> get_profit_analysis(db, start_date, end_date)]
    /\ UNCHANGED <<storeVars, today, writer, threadVars, users, call>>

(***************************************************************************)
(* Spec: the store under concurrent requests.  Two workers serve sell      *)
(* requests step by step while the admin adds, edits and deletes products. *)
(***************************************************************************)
Form(name, buying_price, selling_price, quantity) ==
    [name |-> name, buying_price |-> buying_price,
     selling_price |-> selling_price, quantity |-> quantity]

\* forms the admin submits: two that pass, one per validation that rejects
ProductForms ==
    { Form("Sugar 1kg", 100, 120, 5),
      Form("Sugar 1kg", 100, 150, 2),
      Form("",          100, 120, 5),
      Form("Sugar 1kg", 100, 120, 0 - 1),
      Form("Sugar 1kg", 120, 100, 5) }

ProductIds == 0..MaxProducts          \* 0: no product selected
SellQuantities == {0, 3}

SellStep(t, product_ids, quantities) ==
    \/ \E product_id \in product_ids, quantity \in quantities :
          Sell_Request(t, product_id, quantity)
    \/ Sell_GetProduct(t)
    \/ Sell_CheckStock(t)
    \/ RecordSale_Insert(t)
    \/ RecordSale_Update(t)
    \/ RecordSale_Commit(t)
    \/ RecordSale_Error(t)

Next ==
    \/ \E t \in Threads : SellStep(t, ProductIds, SellQuantities)
    \/ \E f \in ProductForms : AdminAddProduct(f, NoFile)
    \/ \E product_id \in 1..MaxProducts, f \in ProductForms :
          AdminEditProduct(product_id, f, NoFile)
    \/ \E product_id \in 1..MaxProducts : AdminDeleteProduct(product_id)

Spec == Init /\ [][Next]_vars

(***************************************************************************)
(* SpecRace: the store holds one product with 5 in stock; each worker      *)
(* serves one sell request, and the two requests run concurrently.         *)
(***************************************************************************)
InitRace ==
    /\ products = { [id |-> 1, name |-> "Sugar 1kg", buying_price |-> 100,
                     selling_price |-> 120, quantity |-> 5, image_filename |-> NoImage] }
    /\ sales = {}
    /\ expense_categories =
          { [id |-> i, name |-> default_categories[i].name,
             category_type |-> default_categories[i].category_type]
            : i \in 1..Len(default_categories) }
    /\ expenses = {}
    /\ sqlite_sequence = [products |-> 1, sales |-> 0, expenses |-> 0,
                          expense_categories |-> Len(default_categories),
                          users |-> Len(default_users)]
    /\ uploads = {}
    /\ InitThreads
    /\ InitUsers

RaceQuantities == {0, 2, 3}

FirstRequest(t) ==
    /\ flash[t] = ""
    /\ \E product_id \in 0..2, quantity \in RaceQuantities :
          Sell_Request(t, product_id, quantity)

NextRace ==
    \E t \in Threads :
        \/ FirstRequest(t)
        \/ Sell_GetProduct(t)
        \/ Sell_CheckStock(t)
        \/ RecordSale_Insert(t)
        \/ RecordSale_Update(t)
        \/ RecordSale_Commit(t)
        \/ RecordSale_Error(t)

SpecRace == InitRace /\ [][NextRace]_vars

(***************************************************************************)
(* SpecSerial: one request at a time.  A single worker serves the sell     *)
(* requests; the admin's product requests run between them.                *)
(***************************************************************************)
SerialProductForms ==
    { Form("Sugar 1kg",  100,   120,   50),
      Form("Maize 90kg", 40000, 50000, 1),
      Form("Sugar 1kg",  120,   100,   50) }

SerialQuantities == {0, 1, 10}

Idle == Running = {}

NextSerial ==
    \/ SellStep(1, ProductIds, SerialQuantities)
    \/ Idle /\ \E f \in SerialProductForms : AdminAddProduct(f, NoFile)
    \/ Idle /\ \E product_id \in 1..MaxProducts, f \in SerialProductForms :
                  AdminEditProduct(product_id, f, NoFile)
    \/ Idle /\ \E product_id \in 1..MaxProducts : AdminDeleteProduct(product_id)

SpecSerial == Init /\ [][NextSerial]_vars

(***************************************************************************)
(* SpecLedger: the books.  The shop stocks one product; sales and expenses *)
(* are recorded one request at a time over several days.                   *)
(***************************************************************************)
InitLedger ==
    /\ products = { [id |-> 1, name |-> "Maize 90kg", buying_price |-> 40000,
                     selling_price |-> 50000, quantity |-> 5,
                     image_filename |-> NoImage] }
    /\ sales = {}
    /\ expense_categories =
          { [id |-> i, name |-> default_categories[i].name,
             category_type |-> default_categories[i].category_type]
            : i \in 1..Len(default_categories) }
    /\ expenses = {}
    /\ sqlite_sequence = [products |-> 1, sales |-> 0, expenses |-> 0,
                          expense_categories |-> Len(default_categories),
                          users |-> Len(default_users)]
    /\ uploads = {}
    /\ InitThreads
    /\ InitUsers

CategoryIds == {0, 1, 2, Len(default_categories) + 1}   \* none, COGS, Rent, unknown
Amounts == {0, 2000, 5000}

NextLedger ==
    \/ SellStep(1, {1}, {1})
    \/ Idle /\ \E category_id \in CategoryIds, amount \in Amounts :
                  AdminAddExpense(category_id, amount)
    \/ Idle /\ \E expense_id \in 1..MaxExpenses : AdminDeleteExpense(expense_id)
    \/ Idle /\ Tick

SpecLedger == InitLedger /\ [][NextLedger]_vars

(***************************************************************************)
(* SpecPages: the profit analysis page.  The admin opens the page for a    *)
(* range, again and again, while sales and expenses are recorded one       *)
(* request at a time over several days.                                    *)
(***************************************************************************)
\* the whole history, or one day
PageRanges == {<<NoDate, NoDate>>} \cup {<<d, d>> : d \in 1..MaxDay}
PageCategoryIds == {1, 2}          \* COGS, Rent
PageAmounts == {0, 5000}

NextPages ==
    \/ SellStep(1, {1}, {1})
    \/ Idle /\ \E category_id \in PageCategoryIds, amount \in PageAmounts :
                  AdminAddExpense(category_id, amount)
    \/ Idle /\ \E range \in PageRanges : AdminProfitAnalysis(range[1], range[2])
    \/ Idle /\ Tick

SpecPages == InitLedger /\ [][NextPages]_vars

(***************************************************************************)
(* SpecUsers: user management under concurrent requests.  Two workers run  *)
(* add_user, delete_user and update_user_role calls step by step.          *)
(***************************************************************************)
UserIds == 1..(Len(default_users) + MaxUsers)
Roles == {"admin", "employee"}

UserForms ==
    { UserForm("boss",  "secret1", "secret1", "admin"),
      UserForm("clerk", "secret1", "secret1", "manager"),
      UserForm("admin", "secret1", "secret1", "admin"),
      UserForm("",      "secret1", "secret1", "admin"),
      UserForm("boss",  "secret1", "abc",     "admin"),
      UserForm("boss",  "abc",     "abc",     "admin") }

UserStep(t) ==
    \/ \E f \in UserForms : AddUser_Request(t, f)
    \/ AddUser_Insert(t)
    \/ \E user_id \in UserIds : DeleteUser_Request(t, user_id)
    \/ \E user_id \in UserIds, new_role \in Roles :
          UpdateUserRole_Request(t, user_id, new_role)
    \/ LastAdminCheck(t)
    \/ DeleteUser_Delete(t)
    \/ UpdateUserRole_Update(t)

NextUsers == \E t \in Threads : UserStep(t)

SpecUsers == Init /\ [][NextUsers]_vars

(***************************************************************************)
(* SpecUsersSerial: user management, one call at a time.                   *)
(***************************************************************************)
NextUsersSerial ==
    \E t \in Threads :
        /\ \A u \in Threads \ {t} : call[u].pc = "idle"
        /\ UserStep(t)

SpecUsersSerial == Init /\ [][NextUsersSerial]_vars

(***************************************************************************)
(* SpecCatalog: the shelf.  The admin has entered three products (names    *)
(* and prices as in create_test_data, stock levels around the dashboard's  *)
(* low stock threshold); sell requests are served one at a time, and the   *)
(* admin deletes products.                                                 *)
(***************************************************************************)
stocked_products == <<
    [name |-> "Sugar 1kg", buying_price |-> 100, selling_price |-> 120, quantity |-> 50],
    [name |-> "Rice 2kg",  buying_price |-> 200, selling_price |-> 250, quantity |-> 11],
    [name |-> "Salt 500g", buying_price |-> 50,  selling_price |-> 70,  quantity |-> 10] >>

InitCatalog ==
    /\ products = { [id |-> i, name |-> stocked_products[i].name,
                     buying_price |-> stocked_products[i].buying_price,
                     selling_price |-> stocked_products[i].selling_price,
                     quantity |-> stocked_products[i].quantity,
                     image_filename |-> NoImage] : i \in 1..Len(stocked_products) }
    /\ sales = {}
    /\ expense_categories =
          { [id |-> i, name |-> default_categories[i].name,
             category_type |-> default_categories[i].category_type]
            : i \in 1..Len(default_categories) }
    /\ expenses = {}
    /\ sqlite_sequence = [products |-> Len(stocked_products), sales |-> 0, expenses |-> 0,
                          expense_categories |-> Len(default_categories),
                          users |-> Len(default_users)]
    /\ uploads = {}
    /\ InitThreads
    /\ InitUsers

DashboardLimit == 5                  \* get_best_selling_products(limit=5)
DashboardThreshold == 10             \* get_low_stock_products(threshold=10)
Limits == {0, 1, 2, DashboardLimit}
Thresholds == {DashboardThreshold - 1, DashboardThreshold, DashboardThreshold + 1}

TrendDays == {1, 2}                  \* days, as in days=7 and days=30

CatalogIds == 1..Len(stocked_products)
CatalogQuantities == {1, 10}

NextCatalog ==
    \/ SellStep(1, CatalogIds, CatalogQuantities)
    \/ Idle /\ \E product_id \in CatalogIds : AdminDeleteProduct(product_id)

SpecCatalog == InitCatalog /\ [][NextCatalog]_vars

(***************************************************************************)
(* SpecGrowth: the growth rate as a function of the daily trend.  The      *)
(* reports handler holds the list get_daily_profit_trend returned: some    *)
(* dates in ascending order, each with a day's revenue (no, one or two     *)
(* units of Sugar 1kg) and gross profit.                                   *)
(***************************************************************************)
TrendDates == 1..(MaxDay + 1)
Revenues == {0, 120, 240}

DailyTrends ==
    { CHOOSE seq \in OrderByAsc({ [date |-> d, daily_gross_profit |-> revenue[d] \div 6,
                                   daily_revenue |-> revenue[d]] : d \in dates },
                                "date") : TRUE
      : revenue \in [TrendDates -> Revenues], dates \in SUBSET TrendDates }

InitGrowth ==
    /\ InitStore
    /\ InitThreads
    /\ users = { [id |-> i, username |-> default_users[i].username,
                  password |-> default_users[i].password,
                  role |-> default_users[i].role] : i \in 1..Len(default_users) }
    /\ call = [t \in Threads |-> NoCall]
    /\ \E daily_trend \in DailyTrends :
          page = [view |-> "reports", step |-> "daily_trend", daily_trend |-> daily_trend]

NextGrowth == AdminReports_GrowthRate

SpecGrowth == InitGrowth /\ [][NextGrowth]_vars

(***************************************************************************)
(* SpecBulk: the data reset page.  The admin enters a product with its     *)
(* picture, adds expenses, deletes the product, and wipes data in bulk,    *)
(* while a worker serves sell requests.                                    *)
(***************************************************************************)
ConfirmTexts == {"delete all data", " DELETE ALL DATA ", "yes"}
DataTypes == {"sales", "expenses", "products"}

Picture == [stem |-> "sugar", ext |-> "png", timestamp |-> 1]
BulkForms == {Form("Sugar 1kg", 100, 120, 5)}

NextBulk ==
    \/ SellStep(1, {1}, {1})
    \/ \E f \in BulkForms : AdminAddProduct(f, Picture)
    \/ AdminAddExpense(2, 5000)
    \/ AdminDeleteProduct(1)
    \/ \E confirm_text \in ConfirmTexts : DeleteAllData(confirm_text)
    \/ \E data_types \in SUBSET DataTypes : DeleteSpecificData(data_types)

SpecBulk == Init /\ [][NextBulk]_vars

(***************************************************************************)
(* SpecForms: the forms of the shop, filled in well and badly, one request *)
(* at a time.                                                              *)
(***************************************************************************)
QuantityTexts == {"1", "0", "-1", "abc"}
AmountTexts == {"5000", "0", "-1", "abc"}

CalculatorForm(rent, owner_salary, electricity) ==
    [field \in {CalculatorFields[i].field : i \in 1..Len(CalculatorFields)} |->
        CASE field = "rent"         -> rent
          [] field = "owner_salary" -> owner_salary
          [] field = "electricity"  -> electricity
          [] OTHER                  -> "0"]

CalculatorForms ==
    { CalculatorForm("5000", "0", "0"),
      CalculatorForm("5000", "2000", "0"),
      CalculatorForm("5000", "2000", "abc"),
      CalculatorForm("abc", "2000", "0"),
      CalculatorForm("-1", "0", "2000"),
      CalculatorForm("0", "0", "") }

NextForms ==
    \/ \E product_id \in ProductIds, quantity_str \in QuantityTexts :
          SellProduct_Post(1, product_id, quantity_str)
    \/ Sell_GetProduct(1)
    \/ Sell_CheckStock(1)
    \/ RecordSale_Insert(1)
    \/ RecordSale_Update(1)
    \/ RecordSale_Commit(1)
    \/ RecordSale_Error(1)
    \/ Idle /\ \E f \in ProductForms : AdminAddProduct(f, NoFile)
    \/ Idle /\ \E product_id \in 1..MaxProducts, f \in ProductForms :
                  AdminEditProduct(product_id, f, NoFile)
    \/ Idle /\ \E category_id \in CategoryIds, amount_str \in AmountTexts :
                  AdminAddExpense_Post(category_id, amount_str)
    \/ Idle /\ \E data \in CalculatorForms : SimpleProfitCalculator(data)

SpecForms == Init /\ [][NextForms]_vars

(***************************************************************************)
(* SpecPrices: products come into the shop through the add form, the edit  *)
(* form and create_test_data, while two workers sell the first product.    *)
(***************************************************************************)
NextPrices ==
    \/ \E t \in Threads : SellStep(t, {1}, SellQuantities)
    \/ \E f \in ProductForms : AdminAddProduct(f, NoFile)
    \/ \E f \in ProductForms : AdminEditProduct(1, f, NoFile)
    \/ CreateTestData

SpecPrices == Init /\ [][NextPrices]_vars

(***************************************************************************)
(* SpecReset: the admin manages the users and resets the data, while the   *)
(* shop has a product, a sale and an expense on its books.                 *)
(***************************************************************************)
ResetUserForms == {UserForm("boss", "secret1", "secret1", "admin")}

NextReset ==
    \/ \E f \in ResetUserForms : AddUser_Request(1, f)
    \/ AddUser_Insert(1)
    \/ \E user_id \in UserIds : DeleteUser_Request(1, user_id)
    \/ LastAdminCheck(1)
    \/ DeleteUser_Delete(1)
    \/ \E f \in BulkForms : AdminAddProduct(f, NoFile)
    \/ SellStep(2, {1}, {1})
    \/ AdminAddExpense(2, 5000)
    \/ \E confirm_text \in ConfirmTexts : DeleteAllData(confirm_text)

SpecReset == Init /\ [][NextReset]_vars

(***************************************************************************)
(* SpecBooks: the expense totals.  The books hold the expenses of a busy   *)
(* day, entered under the cost of goods, the rent and the salaries; the    *)
(* admin opens the reports page and the profit analysis, deletes expenses, *)
(* and the days pass.                                                      *)
(***************************************************************************)
BookRows == MaxExpenses + 1
BookCategoryIds == {1, 2, 3}           \* COGS, Rent, Salaries
BookAmounts == {30, 49, 2000}

InitBooks ==
    /\ products = { [id |-> 1, name |-> "Maize 90kg", buying_price |-> 40000,
                     selling_price |-> 50000, quantity |-> 5,
                     image_filename |-> NoImage] }
    /\ sales = {}
    /\ expense_categories =
          { [id |-> i, name |-> default_categories[i].name,
             category_type |-> default_categories[i].category_type]
            : i \in 1..Len(default_categories) }
    /\ \E category_id \in [1..BookRows -> BookCategoryIds],
          amount \in [1..BookRows -> BookAmounts] :
          expenses = { [id |-> i, category_id |-> category_id[i],
                        amount |-> amount[i], expense_date |-> 1] : i \in 1..BookRows }
    /\ sqlite_sequence = [products |-> 1, sales |-> 0, expenses |-> BookRows,
                          expense_categories |-> Len(default_categories),
                          users |-> Len(default_users)]
    /\ uploads = {}
    /\ InitThreads
    /\ InitUsers

NextBooks ==
    \/ \E expense_id \in 1..BookRows : AdminDeleteExpense(expense_id)
    \/ \E range \in PageRanges : AdminProfitAnalysis(range[1], range[2])
    \/ AdminReports
    \/ Tick

SpecBooks == InitBooks /\ [][NextBooks]_vars

(***************************************************************************)
(*                              Properties                                 *)
(***************************************************************************)
Sold == "Sale recorded successfully!"
Insufficient == "Insufficient stock!"

RecordSalePositions == {"record_sale", "update", "commit"}

\* the date range as the documentation words it: inclusive, an absent
\* bound is open
InRange(date, start_date, end_date) ==
    /\ start_date = NoDate \/ start_date <= date
    /\ end_date = NoDate \/ date <= end_date

DateInputs == 0..MaxDay

SalesIn(start_date, end_date) ==
    {s \in sales : InRange(s.sale_date, start_date, end_date)}

ExpensesIn(start_date, end_date) ==
    {e \in expenses : InRange(e.expense_date, start_date, end_date)}

TypeOf(e) == Row(expense_categories, e.category_id).category_type

ExpensesOfType(ty, start_date, end_date) ==
    {e \in ExpensesIn(start_date, end_date) : TypeOf(e) = ty}

(***************************************************************************)
(* C1.  Two sell requests that run concurrently against the product with   *)
(* 5 in stock, each for 3 units, end with exactly one recorded sale and    *)
(* one insufficient-stock rejection; they never both succeed.  (Requests   *)
(* that the store itself failed with an error are left aside.)             *)
(***************************************************************************)
C1_ExactlyOneSaleSucceeds ==
    ( /\ \A t \in Threads : pc[t] = "idle" /\ flash[t] \notin {"", "Error"}
      /\ \A t \in Threads : form[t] = [product_id |-> 1, quantity |-> 3] )
    => /\ Cardinality(sales) = 1
       /\ \E t, u \in Threads : flash[t] = Sold /\ flash[u] = Insufficient

(***************************************************************************)
(* C2.  In every reachable state every product's quantity is >= 0.         *)
(***************************************************************************)
C2_QuantityNeverNegative == \A p \in products : p.quantity >= 0

(***************************************************************************)
(* C3.  record_sale is all-or-nothing: every step of a record_sale call    *)
(* either leaves the committed sales and products as they are, or adds     *)
(* exactly one sale row for the call's product and lowers that product's   *)
(* quantity by exactly quantity_sold in the same step, so no connection    *)
(* ever sees one without the other.                                        *)
(***************************************************************************)
C3_RecordSaleAllOrNothing ==
    [][ \A t \in Threads :
          (pc[t] \in RecordSalePositions /\ pc'[t] # pc[t]) =>
             \/ sales' = sales /\ products' = products
             \/ \E s \in sales' \ sales :
                   /\ sales' = sales \cup {s}
                   /\ s.product_id = form[t].product_id
                   /\ s.quantity_sold = form[t].quantity
                   /\ products' =
                        { IF p.id = s.product_id
                          THEN [p EXCEPT !.quantity = @ - s.quantity_sold]
                          ELSE p : p \in products }
                   /\ \E p \in products : p.id = s.product_id ]_vars

\* one call committed its sale and another call was rolled back
C3_Witness ==
    /\ \E t, u \in Threads : flash[t] = Sold /\ flash[u] = "Error"
    /\ Cardinality(sales) = 1
    /\ \E p \in products, s \in sales : p.id = s.product_id /\ p.quantity = 5 - s.quantity_sold

(***************************************************************************)
(* C4.  record_sale fails, adding no sale row and leaving every quantity   *)
(* unchanged, whenever product_id names no product or the product's        *)
(* current quantity is less than the requested quantity.                   *)
(***************************************************************************)
C4_RecordSaleRejects ==
    [][ \A t \in Threads :
          ( /\ pc[t] = "commit" /\ pc'[t] = "idle"
            /\ \/ get_product_by_id(form[t].product_id) = None
               \/ get_product_by_id(form[t].product_id).quantity < form[t].quantity )
          => sales' = sales /\ products' = products ]_vars

(***************************************************************************)
(* C5.  A sell request for q > 0 units that succeeds with no other request *)
(* interleaved, on a product with buying price b, selling price s and      *)
(* stock n >= q, adds exactly one sale with quantity_sold = q,             *)
(* total_price = s * q and profit = (s - b) * q, and leaves the product's  *)
(* quantity at n - q.                                                      *)
(***************************************************************************)
C5_SaleAmounts ==
    [][ \A t \in Threads :
          (pc[t] = "commit" /\ flash'[t] = Sold) =>
             LET p == get_product_by_id(form[t].product_id)
                 q == form[t].quantity
             IN  /\ q > 0 /\ p # None /\ p.quantity >= q
                 /\ \E s \in sales' :
                       /\ s \notin sales
                       /\ sales' = sales \cup {s}
                       /\ s.product_id = p.id
                       /\ s.quantity_sold = q
                       /\ s.total_price = p.selling_price * q
                       /\ s.profit = (p.selling_price - p.buying_price) * q
                 /\ products' = (products \ {p}) \cup {[p EXCEPT !.quantity = p.quantity - q]}
      ]_vars

\* buy 100, sell 120, stock 50, sell 10: total 1200, profit 200, 40 left
C5_Witness ==
    /\ flash[1] = Sold
    /\ \E s \in sales : s.quantity_sold = 10 /\ s.total_price = 1200 /\ s.profit = 200
    /\ \E p \in products : p.buying_price = 100 /\ p.selling_price = 120 /\ p.quantity = 40

(***************************************************************************)
(* C6.  Editing a product (update_product changing name, prices or         *)
(* quantity) leaves every recorded sale as it is, so get_sales_summary and *)
(* get_profit_analysis give the same revenue and gross profit before and   *)
(* after the edit.                                                         *)
(***************************************************************************)
ProductEdited ==
    /\ pc' = pc
    /\ \E p \in products, r \in products' : r.id = p.id /\ r # p

C6_EditKeepsSales ==
    [][ ProductEdited =>
          /\ sales' = sales
          /\ get_sales_summary(db') = get_sales_summary(db)
          /\ \A start_date, end_date \in DateInputs :
                LET before == get_profit_analysis(db, start_date, end_date)
                    after  == get_profit_analysis(db', start_date, end_date)
                IN  /\ after.total_revenue = before.total_revenue
                    /\ after.total_gross_profit = before.total_gross_profit
      ]_vars

\* a sale was recorded at one price and the product now carries another
C6_Witness ==
    \E s \in sales, p \in products :
        /\ p.id = s.product_id
        /\ s.total_price # p.selling_price * s.quantity_sold
        /\ s.profit # (p.selling_price - p.buying_price) * s.quantity_sold
        /\ get_sales_summary(db).total_revenue = s.total_price

(***************************************************************************)
(* C7.  For every date range get_profit_analysis returns                   *)
(* net_profit = total_gross_profit - total_operating_expenses, and adding  *)
(* or removing an expense of a cogs category changes total_cogs and        *)
(* total_expenses but never net_profit.                                    *)
(***************************************************************************)
CogsExpenseChanged ==
    /\ expenses' # expenses
    /\ sales' = sales
    /\ \A e \in (expenses' \ expenses) \cup (expenses \ expenses') : TypeOf(e) = "cogs"

C7_NetProfit ==
    /\ [](\A start_date, end_date \in DateInputs :
            LET pa == get_profit_analysis(db, start_date, end_date)
            IN  pa.net_profit = pa.total_gross_profit - pa.total_operating_expenses)
    /\ [][ CogsExpenseChanged =>
             LET before == get_profit_analysis(db, NoDate, NoDate)
                 after  == get_profit_analysis(db', NoDate, NoDate)
             IN  /\ \A start_date, end_date \in DateInputs :
                       get_profit_analysis(db', start_date, end_date).net_profit
                          = get_profit_analysis(db, start_date, end_date).net_profit
                 /\ after.total_cogs # before.total_cogs
                 /\ after.total_expenses # before.total_expenses ]_vars

\* sales, an operating expense and a cogs expense are on the books
C7_Witness ==
    /\ sales # {}
    /\ \E e \in expenses : TypeOf(e) = "cogs"
    /\ \E e \in expenses : TypeOf(e) = "operating"
    /\ get_profit_analysis(db, NoDate, NoDate).total_cogs > 0
    /\ get_profit_analysis(db, NoDate, NoDate).net_profit
          < get_profit_analysis(db, NoDate, NoDate).total_gross_profit

(***************************************************************************)
(* C8.  Whenever the sales of the range have total_revenue = 0,            *)
(* get_profit_analysis returns gross_profit_margin = 0 and                 *)
(* net_profit_margin = 0 and does not raise, whatever the expenses are.    *)
(***************************************************************************)
IsZero(fraction) == fraction.den # 0 /\ fraction.num = 0

C8_ZeroRevenueMargins ==
    \A start_date, end_date \in DateInputs :
        LET pa == get_profit_analysis(db, start_date, end_date)
        IN  pa.total_revenue = 0 =>
                /\ IsZero(pa.gross_profit_margin)
                /\ IsZero(pa.net_profit_margin)

\* a range without sales but with operating expenses, while sales exist elsewhere
C8_Witness ==
    /\ sales # {}
    /\ \E start_date, end_date \in DateInputs :
          /\ get_profit_analysis(db, start_date, end_date).total_revenue = 0
          /\ get_profit_analysis(db, start_date, end_date).total_operating_expenses > 0
          /\ get_profit_analysis(db, start_date, end_date).net_profit < 0

(***************************************************************************)
(* C9.  For every date range total_cogs is the sum of the in-range         *)
(* expenses of cogs categories, total_operating_expenses the sum for       *)
(* operating categories (0 when there is none), and total_expenses is      *)
(* their sum.                                                              *)
(***************************************************************************)
C9_ExpenseTotals ==
    \A start_date, end_date \in DateInputs :
        LET pa == get_profit_analysis(db, start_date, end_date)
        IN  /\ pa.total_cogs = SUM(ExpensesOfType("cogs", start_date, end_date), "amount")
            /\ pa.total_operating_expenses
                  = SUM(ExpensesOfType("operating", start_date, end_date), "amount")
            /\ pa.total_expenses = pa.total_cogs + pa.total_operating_expenses

\* operating 5000, cogs 2000, gross profit 10000 on revenue 50000:
\* total_expenses 7000, net_profit 5000, net_profit_margin 10
C9_Witness ==
    LET pa == get_profit_analysis(db, NoDate, NoDate)
    IN  /\ pa.total_revenue = 50000 /\ pa.total_gross_profit = 10000
        /\ pa.total_operating_expenses = 5000 /\ pa.total_cogs = 2000
        /\ pa.total_expenses = 7000 /\ pa.net_profit = 5000
        /\ pa.net_profit_margin.num = 10 * pa.net_profit_margin.den

(***************************************************************************)
(* C10.  get_profit_analysis(start, end) applies the same inclusive range  *)
(* to sales and to expenses: a row counts iff start <= its date <= end,    *)
(* an absent bound is open, and a range with start later than end gives    *)
(* all-zero totals.                                                        *)
(***************************************************************************)
C10_SameInclusiveRange ==
    \A start_date, end_date \in DateInputs :
        LET pa == get_profit_analysis(db, start_date, end_date)
        IN  /\ pa.total_revenue = SUM(SalesIn(start_date, end_date), "total_price")
            /\ pa.total_gross_profit = SUM(SalesIn(start_date, end_date), "profit")
            /\ pa.total_expenses = SUM(ExpensesIn(start_date, end_date), "amount")
            /\ (start_date # NoDate /\ end_date # NoDate /\ start_date > end_date) =>
                  /\ pa.total_revenue = 0 /\ pa.total_gross_profit = 0
                  /\ pa.total_cogs = 0 /\ pa.total_operating_expenses = 0
                  /\ pa.total_expenses = 0 /\ pa.net_profit = 0

\* sales and expenses on both days, so that a one-day range counts some of
\* each and leaves some of each out
C10_Witness ==
    /\ \E s1, s2 \in sales : s1.sale_date = 1 /\ s2.sale_date = 2
    /\ \E e1, e2 \in expenses : e1.expense_date = 1 /\ e2.expense_date = 2
    /\ get_profit_analysis(db, 2, 2).total_revenue
          < get_profit_analysis(db, NoDate, NoDate).total_revenue
    /\ get_profit_analysis(db, 2, 2).total_expenses
          < get_profit_analysis(db, NoDate, 2).total_expenses

SoleAdmin(user_id) == Admins = {Row(users, user_id)}

C12_LastAdminProtected ==
    [][ \A t \in Threads :
          ( /\ call[t].pc # "idle"
            /\ SoleAdmin(call[t].user_id)
            /\ call[t].op = "delete_user"
               \/ (call[t].op = "update_user_role" /\ call[t].role # "admin") )
          => /\ users' = users
             /\ call'[t].pc = "idle" =>
                   call'[t].result \in {"Cannot delete the last admin user",
                                        "Cannot change the last admin to employee"}
      ]_vars

\* the one admin is still there after a delete_user call and an
\* update_user_role call on it were both refused
C12_Witness ==
    /\ Cardinality(Admins) = 1 /\ Cardinality(users) >= 2
    /\ \A t \in Threads : call[t].pc = "idle" /\ SoleAdmin(call[t].user_id)
    /\ call[1].op = "delete_user"
    /\ call[1].result = "Cannot delete the last admin user"
    /\ call[2].op = "update_user_role" /\ call[2].role = "employee"
    /\ call[2].result = "Cannot change the last admin to employee"

(***************************************************************************)
(* C13.  In every reachable state, whatever the interleaving of add_user,  *)
(* delete_user and update_user_role calls, some user has the role admin.   *)
(***************************************************************************)
C13_AdminAlwaysExists == Admins # {}

(***************************************************************************)
(* C14.  For every date range, absent bounds included,                     *)
(* get_expenses_by_category returns exactly one row for every expense      *)
(* category, carrying the sum and the count of the category's expenses     *)
(* inside the range: 0 and 0 for a category with none.                     *)
(***************************************************************************)
C14_EveryCategoryListed ==
    \A start_date, end_date \in DateInputs :
        LET result == get_expenses_by_category(db, start_date, end_date)
        IN  /\ Cardinality(result) = Cardinality(expense_categories)
            /\ \A c \in expense_categories :
                  \E r \in result :
                      /\ r.id = c.id
                      /\ r.total_amount
                           = SUM({e \in ExpensesIn(start_date, end_date) :
                                     e.category_id = c.id}, "amount")
                      /\ r.expense_count
                           = Cardinality({e \in ExpensesIn(start_date, end_date) :
                                             e.category_id = c.id})

(***************************************************************************)
(* C15: get_sales_summary counts the sale rows and sums their total_price  *)
(* and profit.  With no sale row the three figures are 0, and every sale   *)
(* row a step stores raises total_sales by one, total_revenue by the row's *)
(* total_price and total_gross_profit by the row's profit.                 *)
(***************************************************************************)
C15_SalesSummary ==
    /\ [](sales = {} =>
            get_sales_summary(db) =
               [total_sales |-> 0, total_revenue |-> 0, total_gross_profit |-> 0])
    /\ [][\A row \in sales' \ sales :
            sales' = sales \cup {row} =>
               LET before == get_sales_summary(db)
                   after  == get_sales_summary(db')
               IN  /\ after.total_sales = before.total_sales + 1
                   /\ after.total_revenue = before.total_revenue + row.total_price
                   /\ after.total_gross_profit = before.total_gross_profit + row.profit
         ]_vars

\* two sales of Sugar 1kg, of 1 and of 10 units
C15_Witness ==
    /\ {x.product_id : x \in sales} = {1}
    /\ get_sales_summary(db) =
          [total_sales |-> 2, total_revenue |-> 1320, total_gross_profit |-> 220]

(***************************************************************************)
(* C16: get_profit_per_product returns exactly one row per existing        *)
(* product, the products without a sale included (with 0, 0 and 0); a      *)
(* product's row carries its name and the sums of quantity_sold,           *)
(* total_price and profit over its sales; the rows come in non-increasing  *)
(* total_profit.  This holds of every order SQLite may give to tied rows.  *)
(***************************************************************************)
C16_ProfitPerProduct ==
    /\ get_profit_per_product(db) # {}
    /\ \A result \in get_profit_per_product(db) :
          /\ Len(result) = Cardinality(products)
          /\ \E f \in [1..Len(result) -> products] :
                /\ \A i, j \in 1..Len(result) : i # j => f[i] # f[j]
                /\ \A i \in 1..Len(result) :
                      LET sold == {x \in sales : x.product_id = f[i].id}
                      IN  /\ result[i].product_name = f[i].name
                          /\ result[i].total_quantity = SUM(sold, "quantity_sold")
                          /\ result[i].total_revenue = SUM(sold, "total_price")
                          /\ result[i].total_profit = SUM(sold, "profit")
                          /\ sold = {} => /\ result[i].total_quantity = 0
                                          /\ result[i].total_revenue = 0
                                          /\ result[i].total_profit = 0
          /\ \A i \in 1..(Len(result) - 1) :
                result[i].total_profit >= result[i + 1].total_profit

\* Rice 2kg sold ten times, Sugar 1kg once, Salt 500g never
C16_Witness ==
    \E result \in get_profit_per_product(db) :
       /\ Len(result) = 3
       /\ result[1].product_name = "Rice 2kg" /\ result[1].total_profit = 500
       /\ result[2].product_name = "Sugar 1kg" /\ result[2].total_profit = 20
       /\ result[3] = [product_name |-> "Salt 500g", image_filename |-> NoImage,
                       total_quantity |-> 0, total_revenue |-> 0, total_profit |-> 0]

(***************************************************************************)
(* C17: get_best_selling_products(limit) returns min(limit, number of      *)
(* products) rows, each the name and the summed quantity_sold of a         *)
(* different product, in non-increasing total_sold, and no product left    *)
(* out has sold strictly more than a product returned.  With the           *)
(* dashboard's limit a product of which 10 units were sold is listed with  *)
(* total_sold = 10.  This holds of every order SQLite may give to ties.    *)
(***************************************************************************)
C17_BestSelling ==
    /\ \A limit \in Limits :
          /\ get_best_selling_products(db, limit) # {}
          /\ \A result \in get_best_selling_products(db, limit) :
                /\ Len(result) = IF limit < Cardinality(products)
                                 THEN limit ELSE Cardinality(products)
                /\ \A i \in 1..(Len(result) - 1) :
                      result[i].total_sold >= result[i + 1].total_sold
                /\ \E f \in [1..Len(result) -> products] :
                      /\ \A i, j \in 1..Len(result) : i # j => f[i] # f[j]
                      /\ \A i \in 1..Len(result) :
                            /\ result[i].name = f[i].name
                            /\ result[i].total_sold =
                                  SUM({x \in sales : x.product_id = f[i].id}, "quantity_sold")
                      /\ \A q \in products \ {f[i] : i \in 1..Len(result)} :
                            \A i \in 1..Len(result) :
                               SUM({x \in sales : x.product_id = q.id}, "quantity_sold")
                                  <= result[i].total_sold
    /\ \A q \in products :
          SUM({x \in sales : x.product_id = q.id}, "quantity_sold") = 10 =>
             \A result \in get_best_selling_products(db, DashboardLimit) :
                \E i \in 1..Len(result) :
                   result[i].name = q.name /\ result[i].total_sold = 10

\* one sale of 10 units of Sugar 1kg, one of 1 unit of Rice 2kg: a list of
\* two leaves Salt 500g out
C17_Witness ==
    /\ \E x \in sales : x.product_id = 1 /\ x.quantity_sold = 10
    /\ Cardinality(products) = 3
    /\ \E result \in get_best_selling_products(db, 2) :
          /\ Len(result) = 2
          /\ result[1].name = "Sugar 1kg" /\ result[1].total_sold = 10
          /\ result[2].name = "Rice 2kg" /\ result[2].total_sold = 1

(***************************************************************************)
(* C18: get_low_stock_products(threshold) returns each product whose       *)
(* quantity is at most threshold exactly once and no other product, in     *)
(* non-decreasing quantity.  With threshold 10 a product with quantity 10  *)
(* is in the list and a product with quantity 11 is not.  This holds of    *)
(* every order SQLite may give to products of equal quantity.              *)
(***************************************************************************)
C18_LowStock ==
    /\ \A threshold \in Thresholds :
          /\ get_low_stock_products(db, threshold) # {}
          /\ \A result \in get_low_stock_products(db, threshold) :
                /\ \A q \in products :
                      (\E i \in 1..Len(result) : result[i] = q) <=> q.quantity <= threshold
                /\ \A i \in 1..Len(result) : result[i] \in products
                /\ \A i, j \in 1..Len(result) : i # j => result[i] # result[j]
                /\ \A i \in 1..(Len(result) - 1) :
                      result[i].quantity <= result[i + 1].quantity
    /\ \A result \in get_low_stock_products(db, DashboardThreshold) :
          \A q \in products :
             /\ q.quantity = 10 => \E i \in 1..Len(result) : result[i] = q
             /\ q.quantity = 11 => \A i \in 1..Len(result) : result[i] # q

\* after a sale of Sugar 1kg the shelf still holds Salt 500g at 10 and
\* Rice 2kg at 11: the dashboard lists Salt alone, a threshold of 11 both
C18_Witness ==
    /\ sales # {}
    /\ \E q \in products : q.name = "Salt 500g" /\ q.quantity = 10
    /\ \E q \in products : q.name = "Rice 2kg" /\ q.quantity = 11
    /\ \A result \in get_low_stock_products(db, DashboardThreshold) :
          Len(result) = 1 /\ result[1].name = "Salt 500g"
    /\ \A result \in get_low_stock_products(db, DashboardThreshold + 1) :
          /\ Len(result) = 2
          /\ result[1].name = "Salt 500g" /\ result[2].name = "Rice 2kg"

(***************************************************************************)
(* C19: get_daily_profit_trend(days) has one entry for each date from      *)
(* days days before today up to today on which a sale was recorded, with   *)
(* that date's summed total_price and profit, in ascending date order, and *)
(* no entry for a date without a sale or outside that window.  Today is    *)
(* the date the sales are stamped with; the window is read at its widest   *)
(* (days + 1 dates), which is what the query gives when SQLite's date and  *)
(* the server's agree.                                                     *)
(***************************************************************************)
C19_DailyTrend ==
    \A now \in SqliteNow(today), days \in TrendDays :
       LET trend == get_daily_profit_trend(db, now, days)
           window == (today - days)..today
       IN  /\ \A d \in window :
                 (\E x \in sales : x.sale_date = d) =>
                    \E i \in 1..Len(trend) :
                       /\ trend[i].date = d
                       /\ trend[i].daily_revenue =
                             SUM({x \in sales : x.sale_date = d}, "total_price")
                       /\ trend[i].daily_gross_profit =
                             SUM({x \in sales : x.sale_date = d}, "profit")
           /\ \A i \in 1..Len(trend) :
                 /\ trend[i].date \in window
                 /\ \E x \in sales : x.sale_date = trend[i].date
           /\ \A i \in 1..(Len(trend) - 1) : trend[i].date < trend[i + 1].date

(***************************************************************************)
(* C20: the growth rate the reports page shows is (last day's revenue -    *)
(* first day's revenue) / first day's revenue * 100 when the daily trend   *)
(* has at least 2 entries and the first day's revenue is above 0, and 0    *)
(* otherwise (no entry, one entry, or a first day's revenue of 0); the     *)
(* handler never divides by zero.                                          *)
(***************************************************************************)
C20_GrowthRate ==
    (page.view = "reports" /\ page.step = "growth_rate") =>
       LET daily_trend == page.daily_trend
           growth_rate == page.growth_rate
           first_day == daily_trend[1].daily_revenue
           last_day == daily_trend[Len(daily_trend)].daily_revenue
       IN  /\ growth_rate.den # 0
           /\ IF Len(daily_trend) >= 2 /\ first_day > 0
              THEN growth_rate.num * first_day = (last_day - first_day) * 100 * growth_rate.den
              ELSE growth_rate.num = 0

\* three days, 120 on the first and 240 on the last: a growth of 100 percent
C20_Witness ==
    /\ page.view = "reports" /\ page.step = "growth_rate"
    /\ Len(page.daily_trend) = 3
    /\ page.daily_trend[1].daily_revenue = 120
    /\ page.daily_trend[3].daily_revenue = 240
    /\ page.growth_rate.den # 0
    /\ page.growth_rate.num = 100 * page.growth_rate.den

(***************************************************************************)
(* C21.  A bulk deletion request (delete_all_data, delete_specific_data)   *)
(* that fails leaves the prior state unchanged: the rows of every table    *)
(* and the image files are after the request what they were before it.     *)
(***************************************************************************)
BulkRequest ==
    \/ \E confirm_text \in ConfirmTexts : DeleteAllData(confirm_text)
    \/ \E data_types \in SUBSET DataTypes : DeleteSpecificData(data_types)

C21_BulkDeletionAtomic ==
    [][ (BulkRequest /\ ~page'.success) => (storeVars' = storeVars /\ users' = users) ]_vars

(***************************************************************************)
(* C24.  In every reachable state every sale's product_id is the id of a   *)
(* product and every expense's category_id is the id of an expense         *)
(* category.                                                               *)
(***************************************************************************)
C24_ReferentialIntegrity ==
    /\ \A x \in sales : \E q \in products : q.id = x.product_id
    /\ \A e \in expenses : \E c \in expense_categories : c.id = e.category_id

(***************************************************************************)
(* C27.  delete_product removes the product row and its image file         *)
(* together or removes neither: after a call on a product with an image,   *)
(* the row is still there exactly when the file is.                        *)
(***************************************************************************)
C27_RowAndImageTogether ==
    [][ \A product_id \in 1..MaxProducts :
          LET q == get_product_by_id(product_id)
          IN  (AdminDeleteProduct(product_id) /\ q # None /\ q.image_filename # NoImage)
                 => ((q \in products') <=> (q.image_filename \in uploads')) ]_vars

(***************************************************************************)
(* C22.  A request rejected for invalid input performs no mutation: after  *)
(* a sell request with a quantity that is not a number or not above 0, a   *)
(* product form with a negative price or quantity or a selling price not   *)
(* above the buying price, an expense form or a profit calculator form     *)
(* with an amount that is not a number or not above 0, the products,       *)
(* sales, expense categories and expenses are what they were before.       *)
(***************************************************************************)
RejectedSell ==
    \E product_id \in ProductIds \ {0}, quantity_str \in QuantityTexts :
       /\ SellProduct_Post(1, product_id, quantity_str)
       /\ ~ParseInt(quantity_str).ok \/ ParseInt(quantity_str).value <= 0

RejectedProduct ==
    \E f \in ProductForms :
       /\ ProductFormError(f) # ""
       /\ \/ AdminAddProduct(f, NoFile)
          \/ \E product_id \in 1..MaxProducts : AdminEditProduct(product_id, f, NoFile)

RejectedExpense ==
    \E category_id \in CategoryIds \ {0}, amount_str \in AmountTexts :
       /\ AdminAddExpense_Post(category_id, amount_str)
       /\ ~ParseFloat(amount_str).ok \/ ParseFloat(amount_str).value <= 0

RejectedCalculator ==
    \E data \in CalculatorForms : SimpleProfitCalculator(data) /\ ~page'.success

C22_RejectedNoMutation ==
    [][ (RejectedSell \/ RejectedProduct \/ RejectedExpense \/ RejectedCalculator)
           => /\ products' = products
              /\ sales' = sales
              /\ expense_categories' = expense_categories
              /\ expenses' = expenses ]_vars

(***************************************************************************)
(* C23.  A sell request served with no other request interleaved, for a    *)
(* product_id that names no product or for more units than the product     *)
(* has, ends with an error message, and none of its steps adds a sale row  *)
(* or changes a product.                                                   *)
(***************************************************************************)
C23_SellRejected ==
    [][ \A t \in Threads :
          LET q == get_product_by_id(form[t].product_id)
          IN  (pc[t] # "idle" /\ (q = None \/ q.quantity < form[t].quantity))
                 => /\ sales' = sales
                    /\ products' = products
                    /\ pc'[t] = "idle" =>
                          flash'[t] = IF q = None THEN "Product not found"
                                      ELSE Insufficient
      ]_vars

\* 10 units were asked of a product that has 1, and the request was refused
C23_Witness ==
    /\ pc[1] = "idle" /\ flash[1] = Insufficient
    /\ form[1].quantity = 10
    /\ \E q \in products : q.id = form[1].product_id /\ q.quantity = 1
    /\ sales = {}

(***************************************************************************)
(* C25.  In every reachable state every product, entered through           *)
(* admin_add_product, admin_edit_product or create_test_data, has          *)
(* buying_price >= 0 and selling_price > buying_price, and every recorded  *)
(* sale has profit > 0 and total_price > 0.                                *)
(***************************************************************************)
C25_PositiveMargin ==
    /\ \A q \in products : q.buying_price >= 0 /\ q.selling_price > q.buying_price
    /\ \A x \in sales : x.profit > 0 /\ x.total_price > 0

\* 3 units of a test product were sold at 120, then the product was edited
\* to sell at 150
C25_Witness ==
    /\ Cardinality(products) = Len(test_products)
    /\ \E q \in products : q.id = 1 /\ q.selling_price = 150
    /\ \E x \in sales : x.product_id = 1 /\ x.total_price = 360 /\ x.profit = 60

(***************************************************************************)
(* C26.  delete_all_data deletes all data except users: after a successful *)
(* request the sales, expenses and products tables are empty and the users *)
(* table (ids, usernames, passwords, roles) is what it was before.         *)
(***************************************************************************)
C26_DeleteAllKeepsUsers ==
    [][ ((\E confirm_text \in ConfirmTexts : DeleteAllData(confirm_text)) /\ page'.success)
           => /\ sales' = {}
              /\ expenses' = {}
              /\ products' = {}
              /\ users' = users ]_vars

(***************************************************************************)
(* C28.  In every state of the store the net profit the reports page works *)
(* out is the net_profit get_profit_analysis returns for the all-time      *)
(* range, no start and no end.                                             *)
(***************************************************************************)
C28_ReportsNetProfit ==
    admin_reports(db).net_profit = get_profit_analysis(db, NoDate, NoDate).net_profit

(***************************************************************************)
(* C29.  Stock conservation.  While sell requests only are served, in any  *)
(* order and interleaving, a product's quantity plus the units sold over   *)
(* its sale rows stays what the quantity was before the first sale: 5 for  *)
(* the product the two workers sell.                                       *)
(***************************************************************************)
C29_StockConservation ==
    \A p \in products :
        p.quantity + SUM({s \in sales : s.product_id = p.id}, "quantity_sold") = 5

\* both requests went through on the stale stock they read: 3 and 3 sold
\* out of 5, the quantity at -1
C29_Witness ==
    /\ \A t \in Threads : pc[t] = "idle" /\ flash[t] = Sold
    /\ {s.quantity_sold : s \in sales} = {3} /\ Cardinality(sales) = 2
    /\ \E p \in products : p.id = 1 /\ p.quantity = 0 - 1

(***************************************************************************)
(* C30.  In every reachable state and for every date range,                *)
(* get_total_expenses(start, end) equals the total_expenses field of       *)
(* get_profit_analysis(start, end): the one sum over the expense rows is   *)
(* the sum that comes out of the join on the category type.                *)
(***************************************************************************)
C30_TotalExpensesAgree ==
    \A start_date, end_date \in DateInputs :
        get_total_expenses(db, start_date, end_date)
            = get_profit_analysis(db, start_date, end_date).total_expenses

====
